---- MODULE Spec2Model ----
(***************************************************************************)
(* ghs: a terminal client for GitHub code search.                          *)
(*                                                                         *)
(* The model follows src/src/app.rs (the event loop, App::handle_key,      *)
(* App::try_load_next_page, App::handle_message), src/src/history.rs,      *)
(* src/src/widgets/text_input.rs, src/src/widgets/search_results.rs (the   *)
(* key handling, render, fill_out_range_list) and src/src/buffers.rs.      *)
(*                                                                         *)
(* Strings are sequences of one-character strings; every character of the  *)
(* alphabets below is one byte long, so byte offsets and character counts  *)
(* coincide.  Option<T> is a sequence of length 0 (None) or 1 (Some).      *)
(* AppState.frame_counter (the spinner's glyph) is not part of this state   *)
(* machine.  SearchResultsState.vertical_scroll, which only render writes, *)
(* is a variable of its own.                                               *)
(***************************************************************************)
EXTENDS Integers, Sequences, FiniteSets, Bags, TLC

VARIABLES
    search_state,          \* App.search_state
    search_history,        \* App.search_history
    input_state,           \* App.input_state
    search_results_state,  \* App.search_results_state
    current_screen,        \* AppState.current_screen
    should_exit,           \* AppState.should_exit
    message_rx,            \* the mpsc queue behind App.message_tx
    tasks,                 \* tokio tasks spawned and not yet finished
    history_file,          \* the contents of history.json
    panicked,              \* a handler has panicked: the process is gone
    spawned,               \* how many fetch tasks have been spawned so far
    last_submitted,        \* history variable: the query of the latest submit
    vertical_scroll,       \* App.search_results_state.vertical_scroll
    terminal,              \* the size of the terminal: frame.area()
    filler,                \* a call of fill_out_range_list: arguments, result
    blitter,               \* a call of buffers::blit: arguments, result
    segmenter,             \* a call of smart_iter_lines: argument, result
    renderer,              \* a call of render_text_match: text match, lines
    layouter               \* a layout of the canvas: heights, selection, areas

vars == <<search_state, search_history, input_state, search_results_state,
          current_screen, should_exit, message_rx, tasks, history_file,
          panicked, spawned, last_submitted, vertical_scroll, terminal,
          filler, blitter, segmenter, renderer, layouter>>

\* what the event handlers and the background tasks never touch
display_vars ==
    <<vertical_scroll, terminal, filler, blitter, segmenter, renderer, layouter>>

----------------------------------------------------------------------------
(* Bounds of the model *)

\* how many fetch tasks (searches and next pages) a run of Spec spawns
MaxFetches == 2
\* how many fetch tasks a run of SpecSearch spawns
MaxSearchFetches == 3
\* how many fetch tasks a run of SpecStale spawns
MaxStaleFetches == 4

----------------------------------------------------------------------------
(* Option<T> *)

None == <<>>
Some(x) == <<x>>
is_some(o) == Len(o) = 1
unwrap(o) == o[1]

----------------------------------------------------------------------------
(* Strings *)

\* the characters the keyboard produces
KeyChars == {"j", "/"}

\* the texts a text input holds in the model: at most one character
InputTexts == {<<>>} \cup {<<c>> : c \in KeyChars}

is_whitespace(c) == c = " "

RECURSIVE trim_start(_)
trim_start(s) ==
    IF s # <<>> /\ is_whitespace(Head(s)) THEN trim_start(Tail(s)) ELSE s

RECURSIVE trim_end(_)
trim_end(s) ==
    IF s # <<>> /\ is_whitespace(s[Len(s)])
    THEN trim_end(SubSeq(s, 1, Len(s) - 1))
    ELSE s

\* str::trim
trim(s) == trim_end(trim_start(s))

\* char::to_lowercase on the characters of the model
lower_char(c) ==
    CASE c = "A" -> "a"
      [] c = "J" -> "j"
      [] OTHER -> c

\* str::to_lowercase
to_lowercase(s) == [i \in 1..Len(s) |-> lower_char(s[i])]

\* str::contains(&str)
contains(s, pat) ==
    \E i \in 0..(Len(s) - Len(pat)) : SubSeq(s, i + 1, i + Len(pat)) = pat

\* the character e-acute (U+00E9): two bytes in UTF-8
E_ACUTE == "E"

\* char::len_utf8
len_utf8(ch) == IF ch = E_ACUTE THEN 2 ELSE 1

\* String::len: the length in bytes
RECURSIVE byte_len(_)
byte_len(s) == IF s = <<>> THEN 0 ELSE len_utf8(Head(s)) + byte_len(Tail(s))

\* str::is_char_boundary: the start of a character, or the end of the string
is_char_boundary(s, idx) ==
    \E k \in 0..Len(s) : byte_len(SubSeq(s, 1, k)) = idx

\* the characters before the boundary idx
chars_before(s, idx) ==
    CHOOSE k \in 0..Len(s) : byte_len(SubSeq(s, 1, k)) = idx

\* String::insert(idx, ch), idx a byte offset: "assert!(self.is_char_boundary(idx))"
string_insert_panics(s, idx) == ~is_char_boundary(s, idx)

\* String::insert(idx, ch), idx a byte offset
string_insert(s, idx, ch) ==
    IF string_insert_panics(s, idx) THEN s
    ELSE LET k == chars_before(s, idx)
         IN SubSeq(s, 1, k) \o <<ch>> \o SubSeq(s, k + 1, Len(s))

\* String::remove(idx), idx a byte offset: the slice from idx must start at a
\* boundary and hold a character
string_remove_panics(s, idx) ==
    ~is_char_boundary(s, idx) \/ idx >= byte_len(s)

\* String::remove(idx), idx a byte offset
string_remove(s, idx) ==
    IF string_remove_panics(s, idx) THEN s
    ELSE LET k == chars_before(s, idx)
         IN SubSeq(s, 1, k) \o SubSeq(s, k + 2, Len(s))

saturating_sub(a, b) == IF a >= b THEN a - b ELSE 0

min(a, b) == IF a <= b THEN a ELSE b

----------------------------------------------------------------------------
(* Key events (crossterm::event::KeyEvent) *)

\* a key press with no modifier
Key(code) == [kind |-> "Press", code |-> code, ch |-> "", ctrl |-> FALSE]

\* a character key press, with or without Ctrl
CharKey(c, ctrl) == [kind |-> "Press", code |-> "Char", ch |-> c, ctrl |-> ctrl]

\* the release of a key (reported by some terminals)
ReleaseKey(code) == [kind |-> "Release", code |-> code, ch |-> "", ctrl |-> FALSE]

is_char(key, c) == key.code = "Char" /\ key.ch = c

PlainCodes == {"Esc", "Enter", "Down", "Up", "Backspace", "Tab"}

CtrlChars == {"j", "/"}

Keys ==
    {Key(code) : code \in PlainCodes}
    \cup {CharKey(c, FALSE) : c \in KeyChars}
    \cup {CharKey(c, TRUE) : c \in CtrlChars}
    \cup {ReleaseKey("Enter")}

----------------------------------------------------------------------------
(* TextInputState (widgets/text_input.rs) *)

TextInputState_default == [input |-> <<>>, cursor_position |-> 0]

\* TextInputState::handle_key: the key makes String::insert or
\* String::remove panic
TextInputState_handle_key_panics(st, key) ==
    CASE key.code = "Char" -> string_insert_panics(st.input, st.cursor_position)
      [] key.code = "Backspace" ->
            /\ st.cursor_position > 0
            /\ string_remove_panics(st.input, st.cursor_position - 1)
      [] key.code = "Delete" ->
            /\ st.cursor_position < byte_len(st.input)
            /\ string_remove_panics(st.input, st.cursor_position)
      [] OTHER -> FALSE

\* TextInputState::handle_key: the state after the key
TextInputState_handle_key(st, key) ==
    CASE TextInputState_handle_key_panics(st, key) -> st
      [] key.code = "Char" ->
            [input |-> string_insert(st.input, st.cursor_position, key.ch),
             cursor_position |-> st.cursor_position + 1]
      [] key.code = "Backspace" ->
            IF st.cursor_position > 0
            THEN [input |-> string_remove(st.input, st.cursor_position - 1),
                  cursor_position |-> st.cursor_position - 1]
            ELSE st
      [] key.code = "Delete" ->
            IF st.cursor_position < byte_len(st.input)
            THEN [st EXCEPT !.input = string_remove(st.input, st.cursor_position)]
            ELSE st
      [] key.code = "Left" ->
            [st EXCEPT !.cursor_position = saturating_sub(st.cursor_position, 1)]
      [] key.code = "Right" ->
            [st EXCEPT !.cursor_position = min(st.cursor_position + 1, byte_len(st.input))]
      [] key.code = "Home" -> [st EXCEPT !.cursor_position = 0]
      [] key.code = "End" -> [st EXCEPT !.cursor_position = byte_len(st.input)]
      [] OTHER -> st

----------------------------------------------------------------------------
(* SearchHistory (history.rs) *)

MAX_HISTORY_SIZE == 100

SearchHistory_default == [searches |-> <<>>, selected_idx |-> None]

SearchHistory_new(searches) == [searches |-> searches, selected_idx |-> None]

\* Vec::retain(|s| s != &query)
retain_ne(searches, query) ==
    LET kept(s) == s # query
    IN SelectSeq(searches, kept)

\* Vec::truncate(len)
truncate(v, len) == IF Len(v) > len THEN SubSeq(v, 1, len) ELSE v

\* a variant that keeps the earlier occurrences of the query
add_search_keeping(h, query) ==
    [h EXCEPT !.searches = truncate(<<query>> \o h.searches, MAX_HISTORY_SIZE)]

add_search(h, query) ==
    LET inserted == <<query>> \o retain_ne(h.searches, query)
    IN [h EXCEPT !.searches =
            IF Len(inserted) > MAX_HISTORY_SIZE
            THEN truncate(inserted, MAX_HISTORY_SIZE)
            ELSE inserted]

select_next(h) ==
    IF h.searches = <<>> THEN h
    ELSE [h EXCEPT !.selected_idx =
            Some(IF h.selected_idx = None THEN 0
                 ELSE min(unwrap(h.selected_idx) + 1, Len(h.searches) - 1))]

select_prev(h) ==
    IF h.searches = <<>> THEN h
    ELSE [h EXCEPT !.selected_idx =
            Some(IF h.selected_idx = None THEN 0
                 ELSE saturating_sub(unwrap(h.selected_idx), 1))]

\* indices are 0-based, as in the source
get_selected(h) ==
    IF h.selected_idx # None /\ unwrap(h.selected_idx) < Len(h.searches)
    THEN Some(h.searches[unwrap(h.selected_idx) + 1])
    ELSE None

clear_selection(h) == [h EXCEPT !.selected_idx = None]

----------------------------------------------------------------------------
(* CodeResults (results.rs) and PaginationInfo (api.rs) *)

CodeResults_empty == [items |-> <<>>]

\* a URL of the search endpoint, "...?q=<q>&page=<page>"
Url(q, page) == [q |-> q, page |-> page]

PaginationInfo(prev, next, first, last) ==
    [prev |-> prev, next |-> next, first |-> first, last |-> last]

----------------------------------------------------------------------------
(* SearchResultsState (widgets/search_results.rs) *)

\* the selection is "near the end" within this many items of the count
NearEndMargin == 5

SearchResultsState_default ==
    [selected_item_idx |-> 0,
     filter_mode |-> "Inactive",
     filter_input_state |-> TextInputState_default]

should_include_match(st, item, text_match) ==
    IF st.filter_mode = "Inactive" \/ st.filter_input_state.input = <<>>
    THEN TRUE
    ELSE LET filter == to_lowercase(st.filter_input_state.input)
         IN \/ contains(to_lowercase(item.path), filter)
            \/ contains(to_lowercase(item.full_name), filter)
            \/ contains(to_lowercase(text_match.fragment), filter)

\* items.iter().flat_map(|item| item.text_matches.iter().filter(..).map(..))
RECURSIVE flat_map_filtered(_, _)
flat_map_filtered(items, st) ==
    IF items = <<>> THEN <<>>
    ELSE LET item == Head(items)
             kept == SelectSeq(item.text_matches,
                               LAMBDA tm : should_include_match(st, item, tm))
         IN [i \in 1..Len(kept) |-> <<item, kept[i]>>]
            \o flat_map_filtered(Tail(items), st)

\* a variant that lists every text match, whatever the filter
iter_text_matches_unfiltered(code, st) ==
    flat_map_filtered(code.items, SearchResultsState_default)

\* the (item, text match) pairs that pass the filter, in order
iter_text_matches_filtered(code, st) == flat_map_filtered(code.items, st)

\* the selection after the next-item key
select_next_item(idx, filtered_count) == (idx + 1) % filtered_count

\* the selection after the previous-item key
select_prev_item(idx, filtered_count) == saturating_sub(idx, 1)

\* a variant that is one item late
is_near_end_late(idx, filtered_count) ==
    idx > saturating_sub(filtered_count, NearEndMargin)

\* "Check if we're near the end (within 5 items)"
is_near_end(idx, filtered_count) ==
    idx >= saturating_sub(filtered_count, NearEndMargin)

\* the navigation part of SearchResultsState::handle_key
handle_navigation(st, key, code) ==
    LET filtered_count == Len(iter_text_matches_filtered(code, st))
    IN IF filtered_count = 0
       THEN [state |-> st, result |-> "Handled"]
       ELSE CASE is_char(key, "j") \/ key.code = "Down" ->
                    LET idx == select_next_item(st.selected_item_idx, filtered_count)
                    IN [state |-> [st EXCEPT !.selected_item_idx = idx],
                        result |-> IF is_near_end(idx, filtered_count)
                                   THEN "NeedsPagination"
                                   ELSE "Handled"]
              [] is_char(key, "k") \/ key.code = "Up" ->
                    [state |-> [st EXCEPT !.selected_item_idx =
                                    select_prev_item(@, filtered_count)],
                     result |-> "Handled"]
              [] OTHER ->
                    \* 'l' and Enter open the selected result in the browser
                    [state |-> st, result |-> "Handled"]

\* a variant that starts the edit from an empty filter
enter_editing_fresh(st) ==
    [st EXCEPT !.filter_mode = "Editing",
               !.filter_input_state = TextInputState_default]

\* '/' with the filter Inactive ("Enter filter mode") or Applied
\* ("Re-enter editing mode")
enter_editing(st) == [st EXCEPT !.filter_mode = "Editing"]

\* a variant that puts the filter in force whatever its text
editing_esc_mode_applying(input) == "Applied"

\* the filter mode after Esc while the filter is being edited
editing_esc_mode(input) == IF input = <<>> THEN "Inactive" ELSE "Applied"

\* a variant that resets the selection on every key
selection_after_edit_resetting(idx, old_input, new_input) == 0

\* "Reset selection if filter changed"
selection_after_edit(idx, old_input, new_input) ==
    IF old_input # new_input THEN 0 ELSE idx

\* a variant that keeps the selection
clear_filter_keeping_selection(st) ==
    [st EXCEPT !.filter_mode = "Inactive",
               !.filter_input_state = TextInputState_default]

\* "Second Esc: clear filter entirely"
clear_filter(st) ==
    [st EXCEPT !.filter_mode = "Inactive",
               !.filter_input_state = TextInputState_default,
               !.selected_item_idx = 0]

\* SearchResultsState::handle_key: the key is routed to the filter input and
\* makes it panic
SearchResultsState_handle_key_panics(st, key) ==
    /\ st.filter_mode = "Editing"
    /\ key.code \notin {"Esc", "Enter"}
    /\ TextInputState_handle_key_panics(st.filter_input_state, key)

\* SearchResultsState::handle_key: the state after the key, and the result
SearchResultsState_handle_key(st, key, code) ==
    CASE st.filter_mode = "Editing" ->
            CASE key.code = "Esc" ->
                    [state |-> [st EXCEPT !.filter_mode =
                                    editing_esc_mode(st.filter_input_state.input)],
                     result |-> "Handled"]
              [] key.code = "Enter" ->
                    [state |-> [st EXCEPT !.filter_mode = "Applied"],
                     result |-> "Handled"]
              [] OTHER ->
                    LET new_input == TextInputState_handle_key(st.filter_input_state, key)
                    IN [state |-> [st EXCEPT
                                    !.filter_input_state = new_input,
                                    !.selected_item_idx =
                                        selection_after_edit(
                                            @, st.filter_input_state.input,
                                            new_input.input)],
                        result |-> "Handled"]
      [] st.filter_mode = "Applied" ->
            CASE key.code = "Esc" ->
                    [state |-> clear_filter(st), result |-> "Handled"]
              [] is_char(key, "/") ->
                    [state |-> enter_editing(st), result |-> "Handled"]
              [] OTHER -> handle_navigation(st, key, code)
      [] OTHER ->
            IF is_char(key, "/")
            THEN [state |-> enter_editing(st), result |-> "Handled"]
            ELSE handle_navigation(st, key, code)

----------------------------------------------------------------------------
(* The search service, as seen through api::fetch_code_results *)

\* the number of result pages the service holds for a query with many hits
ServerLastPage == 2

TextMatch(fragment) == [fragment |-> fragment]

\* a hit with two text matches
ItemOne(q) ==
    [path |-> <<"x">>, full_name |-> q,
     text_matches |-> <<TextMatch(<<"J">>), TextMatch(<<"y">>)>>]

\* a hit with four text matches
ItemTwo(q) ==
    [path |-> <<"z">>, full_name |-> q,
     text_matches |-> <<TextMatch(<<"j">>), TextMatch(<<"y">>),
                        TextMatch(<<"y", "/">>), TextMatch(<<"J", "x">>)>>]

\* PaginationInfo::from_link_header of the Link header of page `page`
link_header(q, page) ==
    PaginationInfo(IF page > 1 THEN Some(Url(q, page - 1)) ELSE None,
                   IF page < ServerLastPage THEN Some(Url(q, page + 1)) ELSE None,
                   IF page > 1 THEN Some(Url(q, 1)) ELSE None,
                   IF page < ServerLastPage THEN Some(Url(q, ServerLastPage)) ELSE None)

CodeResultsWithPagination(items, pagination) ==
    [results |-> [items |-> items], pagination |-> pagination]

\* the Ok values fetch_code_results(query, page) may return
fetch_code_results(query, page) ==
    IF page = None
    THEN {CodeResultsWithPagination(<<ItemOne(query), ItemTwo(query)>>,
                                    Some(link_header(query, 1))),
          CodeResultsWithPagination(<<ItemOne(query)>>, None)}
    ELSE {CodeResultsWithPagination(<<ItemOne(query)>>,
                                    Some(link_header(query, unwrap(page))))}

----------------------------------------------------------------------------
(* SearchState and AppMessage (app.rs) *)

SearchState(tag, query, results, pagination, current_page) ==
    [tag |-> tag, query |-> query, results |-> results,
     pagination |-> pagination, current_page |-> current_page]

Idle == SearchState("Idle", <<>>, CodeResults_empty, None, 0)
Loading(query) == SearchState("Loading", query, CodeResults_empty, None, 0)
Loaded(query, results, pagination, current_page) ==
    SearchState("Loaded", query, results, pagination, current_page)
LoadingMore(query, results, pagination, current_page) ==
    SearchState("LoadingMore", query, results, pagination, current_page)

AppMessage(type, results, query, page, searches) ==
    [type |-> type, results |-> results, query |-> query, page |-> page,
     searches |-> searches]

NoResults == CodeResultsWithPagination(<<>>, None)

SearchComplete(results, query) == AppMessage("SearchComplete", results, query, 0, <<>>)
SearchError == AppMessage("SearchError", NoResults, <<>>, 0, <<>>)
PaginationComplete(results, page) ==
    AppMessage("PaginationComplete", results, <<>>, page, <<>>)
PaginationError == AppMessage("PaginationError", NoResults, <<>>, 0, <<>>)
HistoryLoaded(searches) == AppMessage("HistoryLoaded", NoResults, <<>>, 0, searches)

\* a tokio::spawn'ed task
Task(kind, query, page, history) ==
    [kind |-> kind, query |-> query, page |-> page, history |-> history]

SearchTask(query) == Task("search", query, None, <<>>)
PageTask(query, page) == Task("page", query, Some(page), <<>>)
LoadHistoryTask == Task("load", <<>>, None, <<>>)
SaveHistoryTask(history) == Task("save", <<>>, None, history.searches)

----------------------------------------------------------------------------
(* App (app.rs) *)

\* the App and AppState fields, as one record
App ==
    [search_state |-> search_state,
     search_history |-> search_history,
     input_state |-> input_state,
     search_results_state |-> search_results_state,
     current_screen |-> current_screen,
     should_exit |-> should_exit]

\* what a handler leaves behind: the fields, the tasks it spawned, a panic
Outcome(app, spawn, panic) == [app |-> app, spawn |-> spawn, panic |-> panic]

\* the page a next-page fetch asks for
next_page_of(current_page) == current_page + 1

\* a variant that asks for the next page again while it is loading
try_load_next_page_again(app) ==
    LET ss == app.search_state
    IN IF /\ ss.tag \in {"Loaded", "LoadingMore"}
          /\ is_some(ss.pagination)
          /\ is_some(unwrap(ss.pagination).next)
       THEN Outcome([app EXCEPT !.search_state =
                        LoadingMore(ss.query, ss.results, ss.pagination,
                                    ss.current_page)],
                    <<PageTask(ss.query, next_page_of(ss.current_page))>>,
                    FALSE)
       ELSE Outcome(app, <<>>, FALSE)

\* App::try_load_next_page
try_load_next_page(app) ==
    LET ss == app.search_state
    IN IF /\ ss.tag = "Loaded"
          /\ is_some(ss.pagination)
          /\ is_some(unwrap(ss.pagination).next)
       THEN Outcome([app EXCEPT !.search_state =
                        LoadingMore(ss.query, ss.results, ss.pagination,
                                    ss.current_page)],
                    <<PageTask(ss.query, next_page_of(ss.current_page))>>,
                    FALSE)
       ELSE Outcome(app, <<>>, FALSE)

\* the history entry recalled into the prompt, if one is selected
recall_selected(app) ==
    LET selected == get_selected(app.search_history)
    IN IF is_some(selected)
       THEN [app EXCEPT !.input_state =
                [input |-> unwrap(selected),
                 cursor_position |-> byte_len(unwrap(selected))]]
       ELSE app

\* App::handle_key, Screen::SearchPrompt
handle_key_prompt(app, key) ==
    CASE key.code = "Esc" \/ (is_char(key, "c") /\ key.ctrl) ->
            Outcome([app EXCEPT !.should_exit = TRUE], <<>>, FALSE)
      [] key.code = "Down" \/ (is_char(key, "j") /\ key.ctrl) ->
            Outcome(recall_selected([app EXCEPT !.search_history = select_next(@)]),
                    <<>>, FALSE)
      [] key.code = "Up" \/ (is_char(key, "k") /\ key.ctrl) ->
            Outcome(recall_selected([app EXCEPT !.search_history = select_prev(@)]),
                    <<>>, FALSE)
      [] key.code = "Enter" \/ (is_char(key, "l") /\ key.ctrl) ->
            LET query == trim(app.input_state.input)
            IN IF query # <<>>
               THEN Outcome([app EXCEPT
                                !.search_state = Loading(query),
                                !.search_history = clear_selection(@),
                                !.current_screen = "SearchResults"],
                            <<SearchTask(query)>>, FALSE)
               ELSE Outcome(app, <<>>, FALSE)
      [] OTHER ->
            IF ~key.ctrl
            THEN Outcome([app EXCEPT
                            !.search_history = clear_selection(@),
                            !.input_state = TextInputState_handle_key(@, key)],
                         <<>>,
                         TextInputState_handle_key_panics(app.input_state, key))
            ELSE Outcome(app, <<>>, FALSE)

\* a variant that cancels the search when Esc leaves the results screen
handle_key_results_cancelling(app, key) ==
    IF key.code = "Esc" /\ app.search_results_state.filter_mode = "Inactive"
    THEN Outcome([app EXCEPT !.current_screen = "SearchPrompt",
                             !.search_state = Idle], <<>>, FALSE)
    ELSE IF app.search_state.tag \in {"Loaded", "LoadingMore"}
    THEN LET r == SearchResultsState_handle_key(app.search_results_state, key,
                                                app.search_state.results)
             after == [app EXCEPT !.search_results_state = r.state]
         IN IF r.result = "NeedsPagination"
            THEN try_load_next_page(after)
            ELSE Outcome(after, <<>>, FALSE)
    ELSE Outcome(app, <<>>, FALSE)

\* a variant in which Esc leaves the results screen in every filter mode
handle_key_results_leaving(app, key) ==
    IF key.code = "Esc"
    THEN Outcome([app EXCEPT !.current_screen = "SearchPrompt"], <<>>, FALSE)
    ELSE IF app.search_state.tag \in {"Loaded", "LoadingMore"}
    THEN LET r == SearchResultsState_handle_key(app.search_results_state, key,
                                                app.search_state.results)
             after == [app EXCEPT !.search_results_state = r.state]
         IN IF r.result = "NeedsPagination"
            THEN try_load_next_page(after)
            ELSE Outcome(after, <<>>, FALSE)
    ELSE Outcome(app, <<>>, FALSE)

\* App::handle_key, Screen::SearchResults
handle_key_results(app, key) ==
    IF key.code = "Esc" /\ app.search_results_state.filter_mode = "Inactive"
    THEN Outcome([app EXCEPT !.current_screen = "SearchPrompt"], <<>>, FALSE)
    ELSE IF app.search_state.tag \in {"Loaded", "LoadingMore"}
    THEN LET r == SearchResultsState_handle_key(app.search_results_state, key,
                                                app.search_state.results)
             after == [app EXCEPT !.search_results_state = r.state]
         IN IF r.result = "NeedsPagination"
            THEN try_load_next_page(after)
            ELSE Outcome(after, <<>>,
                         SearchResultsState_handle_key_panics(
                             app.search_results_state, key))
    ELSE Outcome(app, <<>>, FALSE)

\* App::handle_key
handle_key(app, key) ==
    IF key.kind # "Press" THEN Outcome(app, <<>>, FALSE)
    ELSE IF app.current_screen = "SearchPrompt" THEN handle_key_prompt(app, key)
    ELSE handle_key_results(app, key)

\* a variant that drops the new items the list already holds
merge_results_dedup(current_results, new_results) ==
    [items |-> current_results.items \o
                SelectSeq(new_results.items,
                          LAMBDA item : \A i \in 1..Len(current_results.items) :
                                           current_results.items[i] # item)]

\* "Append new items to existing results"
merge_results(current_results, new_results) ==
    [items |-> current_results.items \o new_results.items]

\* the page of results a completed search shows
FirstPage == 1

\* a variant that keeps the results held before
handle_search_complete_keeping(app, msg) ==
    LET history == add_search(app.search_history, msg.query)
    IN Outcome([app EXCEPT
                    !.search_state =
                        Loaded(msg.query,
                               merge_results(app.search_state.results,
                                             msg.results.results),
                               msg.results.pagination, FirstPage),
                    !.search_results_state =
                        [@ EXCEPT !.filter_mode = "Inactive",
                                  !.filter_input_state = TextInputState_default],
                    !.search_history = history],
               <<SaveHistoryTask(history)>>, FALSE)

\* App::handle_message, SearchComplete
handle_search_complete(app, msg) ==
    LET history == add_search(app.search_history, msg.query)
    IN Outcome([app EXCEPT
                    !.search_state = Loaded(msg.query, msg.results.results,
                                            msg.results.pagination, FirstPage),
                    !.search_results_state =
                        [@ EXCEPT !.filter_mode = "Inactive",
                                  !.filter_input_state = TextInputState_default],
                    !.search_history = history],
               <<SaveHistoryTask(history)>>, FALSE)

\* a variant that drops the page
handle_pagination_complete_dropping(app, msg) == Outcome(app, <<>>, FALSE)

\* App::handle_message, PaginationComplete
handle_pagination_complete(app, msg) ==
    LET ss == app.search_state
    IN IF ss.tag = "LoadingMore"
       THEN Outcome([app EXCEPT !.search_state =
                        Loaded(ss.query,
                               merge_results(ss.results, msg.results.results),
                               msg.results.pagination, msg.page)],
                    <<>>, FALSE)
       ELSE Outcome(app, <<>>, FALSE)

\* a variant that drops the error and carries on
handle_fetch_error_ignoring(app, msg) == Outcome(app, <<>>, FALSE)

\* App::handle_message, SearchError and PaginationError: panic!
handle_fetch_error(app, msg) == Outcome(app, <<>>, TRUE)

\* App::handle_message
handle_message(app, msg) ==
    CASE msg.type = "SearchComplete" -> handle_search_complete(app, msg)
      [] msg.type = "SearchError" -> handle_fetch_error(app, msg)
      [] msg.type = "PaginationComplete" -> handle_pagination_complete(app, msg)
      [] msg.type = "PaginationError" -> handle_fetch_error(app, msg)
      [] OTHER ->
            Outcome([app EXCEPT !.search_history = SearchHistory_new(msg.searches)],
                    <<>>, FALSE)

----------------------------------------------------------------------------
(* Rect and Buffer (ratatui), and buffers.rs *)

\* u16 values are below this
U16 == 65536

Rect(x, y, width, height) == [x |-> x, y |-> y, width |-> width, height |-> height]

\* the positions <<x, y>> of an area
positions(area) ==
    (area.x .. (area.x + area.width - 1)) \X (area.y .. (area.y + area.height - 1))

\* what a cell shows: nothing, a border of the results block, or row `row`
\* of the pane of the text match at index `idx` of the list
Cell(kind, idx, row) == [kind |-> kind, idx |-> idx, row |-> row]
Blank == Cell("blank", 0, 0)
Border == Cell("border", 0, 0)

Buffer(area, content) == [area |-> area, content |-> content]

\* Buffer::empty
Buffer_empty(area) == Buffer(area, [p \in positions(area) |-> Blank])

\* Buffer::cell and Buffer::cell_mut return Some for these positions
has_cell(buf, pos) == pos \in positions(buf.area)

\* the outcome of blit: the target buffer, and whether an addition panicked
BlitOutcome(buf, panic) == [buf |-> buf, panic |-> panic]

\* copy_cel, once both cells exist: symbol and style of the source cell
copy_cel(tgt_cell, src_cell) == src_cell

\* buffers::blit.  The coordinates are u16: a sum of 65536 or more panics
\* where overflow checks are compiled in and wraps around where they are not
blit(tgt, src, tgt_offset, src_offset, overflow_checks) ==
    LET rels == (0 .. (tgt.area.width - 1)) \X (0 .. (tgt.area.height - 1))
        tgt_sum(rel) == <<tgt.area.x + rel[1] + tgt_offset[1],
                          tgt.area.y + rel[2] + tgt_offset[2]>>
        src_sum(rel) == <<src.area.x + rel[1] + src_offset[1],
                          src.area.y + rel[2] + src_offset[2]>>
        wrapped(sum) == <<sum[1] % U16, sum[2] % U16>>
        overflows == \E rel \in rels : \E i \in 1..2 :
                        tgt_sum(rel)[i] >= U16 \/ src_sum(rel)[i] >= U16
        copied == {rel \in rels : /\ has_cell(src, wrapped(src_sum(rel)))
                                  /\ has_cell(tgt, wrapped(tgt_sum(rel)))}
        source_of(pos) == CHOOSE rel \in copied : wrapped(tgt_sum(rel)) = pos
    IN IF overflows /\ overflow_checks
       THEN BlitOutcome(tgt, TRUE)
       ELSE BlitOutcome(
                Buffer(tgt.area,
                       [pos \in positions(tgt.area) |->
                           IF \E rel \in copied : wrapped(tgt_sum(rel)) = pos
                           THEN copy_cel(tgt.content[pos],
                                         src.content[wrapped(src_sum(source_of(pos)))])
                           ELSE tgt.content[pos]]),
                FALSE)

----------------------------------------------------------------------------
(* SearchResults::render (widgets/search_results.rs) and the results screen *)

\* the first index (0-based) at which pat occurs in s, if any: str::find
find(s, pat) ==
    LET hits == {i \in 0..(Len(s) - Len(pat)) : SubSeq(s, i + 1, i + Len(pat)) = pat}
    IN IF hits = {} THEN None
       ELSE Some(CHOOSE i \in hits : \A k \in hits : i <= k)

\* smart_iter_lines(s).count()
RECURSIVE line_count(_)
line_count(s) ==
    IF s = <<>> THEN 0
    ELSE LET next_newline_carriage_return == find(s, <<"\r", "\n">>)
             next_newline == find(s, <<"\n">>)
             offset == IF is_some(next_newline_carriage_return) THEN 2
                       ELSE IF is_some(next_newline) THEN 1
                       ELSE 0
             line_end == IF is_some(next_newline_carriage_return)
                         THEN unwrap(next_newline_carriage_return)
                         ELSE IF is_some(next_newline) THEN unwrap(next_newline)
                         ELSE Len(s)
         IN 1 + line_count(SubSeq(s, line_end + offset + 1, Len(s)))

\* "2 for borders, 1 for margin"
ChromeRows == 3

\* text_match_heights: the line count of every text match that passes the filter
text_match_heights(code, st) ==
    LET filtered_matches == iter_text_matches_filtered(code, st)
    IN [i \in 1..Len(filtered_matches) |-> line_count(filtered_matches[i][2].fragment)]

\* heights.iter().take(count).map(|&h| h + 3).sum()
RECURSIVE offset_of(_, _)
offset_of(heights, count) ==
    IF count = 0 \/ heights = <<>> THEN 0
    ELSE Head(heights) + ChromeRows + offset_of(Tail(heights), count - 1)

\* a variant that never scrolls up
scroll_adjusted_down_only(offset_start, offset_end, scroll, h) ==
    IF offset_end > scroll + h THEN offset_end - h ELSE scroll

\* a variant that puts the top of the selection at the top of the window
scroll_adjusted_to_top(offset_start, offset_end, scroll, h) == offset_start

\* "Scroll down if selected item's bottom is below the visible window",
\* "Scroll up if selected item's top is above the visible window": both
\* compare with the window before the adjustment
scroll_adjusted(offset_start, offset_end, scroll, h) ==
    LET scrolled_down == IF offset_end > scroll + h THEN offset_end - h ELSE scroll
    IN IF offset_start < scroll THEN offset_start ELSE scrolled_down

\* Block::inner, Borders::ALL
block_inner(area) ==
    Rect(area.x + min(1, area.width), area.y + min(1, area.height),
         saturating_sub(area.width, 2), saturating_sub(area.height, 2))

\* Block::render, Borders::ALL: the cells on the edge of the area
block_render(area, buf) ==
    Buffer(buf.area,
           [pos \in positions(buf.area) |->
               IF /\ pos \in positions(area)
                  /\ \/ pos[1] \in {area.x, area.x + area.width - 1}
                     \/ pos[2] \in {area.y, area.y + area.height - 1}
               THEN Border ELSE buf.content[pos]])

\* Rect::new(0, 0, inner_area.width, total_height as u16)
canvas_area(width, heights) ==
    LET total_height == offset_of(heights, Len(heights))
    IN Rect(0, 0, width, total_height % U16)

\* state.vertical_scroll as u16
source_scroll(scroll) == scroll % U16

\* the off-screen buffer, every text match rendered in its pane
canvas(width, heights) ==
    LET pane_of(y) == CHOOSE idx \in 0..(Len(heights) - 1) :
                         /\ offset_of(heights, idx) <= y
                         /\ y < offset_of(heights, idx + 1)
        area == canvas_area(width, heights)
    IN Buffer(area,
              [pos \in positions(area) |->
                  Cell("match", pane_of(pos[2]),
                       pos[2] - offset_of(heights, pane_of(pos[2])))])

\* the target offset `inner_area` stands for in the call of blit
blit_offset(inner_area, area) == <<inner_area.x, inner_area.y>>

\* SearchResults::render: the scroll and the buffer it leaves
SearchResults_render(area, buf, code, st, scroll, overflow_checks) ==
    LET inner_area == block_inner(area)
        heights == text_match_heights(code, st)
        tbuf == canvas(inner_area.width, heights)
        new_scroll == scroll_adjusted(offset_of(heights, st.selected_item_idx),
                                      offset_of(heights, st.selected_item_idx + 1),
                                      scroll, inner_area.height)
        blitted == blit(block_render(area, buf), tbuf,
                        blit_offset(inner_area, area),
                        <<0, source_scroll(new_scroll)>>, overflow_checks)
    IN [vertical_scroll |-> new_scroll, buf |-> blitted.buf, panic |-> blitted.panic]

\* App::render_search_results_screen: the area of the list of matches
matches_area_of(frame_area, filter_mode) ==
    LET footer_height == IF filter_mode = "Editing" THEN 5 ELSE 3
    IN Rect(frame_area.x + 2, frame_area.y + 2,
            saturating_sub(frame_area.width, 4),
            saturating_sub(saturating_sub(frame_area.height, 4), footer_height))

----------------------------------------------------------------------------
(* The event loop of App::run and the background tasks *)

\* Rect: a terminal of 7 columns and 13 rows
DefaultTerminal == [x |-> 0, y |-> 0, width |-> 7, height |-> 13]

\* no call of the function has been made
NoCall == [called |-> FALSE]

\* history.json before the program starts: one saved search
InitialHistoryFiles == {Some(<< <<"j">> >>)}

Init ==
    /\ search_state = Idle
    /\ search_history = SearchHistory_default
    /\ input_state = TextInputState_default
    /\ search_results_state = SearchResultsState_default
    /\ current_screen = "SearchPrompt"
    /\ should_exit = FALSE
    /\ message_rx = <<>>
    /\ tasks = SetToBag({LoadHistoryTask})
    /\ history_file \in InitialHistoryFiles
    /\ panicked = FALSE
    /\ spawned = 0
    /\ last_submitted = None
    /\ vertical_scroll = 0
    /\ terminal = DefaultTerminal
    /\ filler = NoCall
    /\ blitter = NoCall
    /\ segmenter = NoCall
    /\ renderer = NoCall
    /\ layouter = NoCall

\* the loop is still turning: no `break`, no panic
Running == ~panicked /\ ~should_exit

is_fetch(task) == task.kind \in {"search", "page"}

fetches(spawn) == SelectSeq(spawn, is_fetch)

is_search(task) == task.kind = "search"

\* the query of the latest submit, after a handler that spawned `spawn`
submitted_after(spawn) ==
    LET searches == SelectSeq(spawn, is_search)
    IN IF searches = <<>> THEN last_submitted
       ELSE Some(searches[Len(searches)].query)

\* the bag of the tasks a handler spawned
RECURSIVE spawn_bag(_)
spawn_bag(spawn) ==
    IF spawn = <<>> THEN EmptyBag
    ELSE SetToBag({Head(spawn)}) (+) spawn_bag(Tail(spawn))

WithinBounds(out, max_fetches) ==
    /\ out.app.input_state.input \in InputTexts
    /\ out.app.search_results_state.filter_input_state.input \in InputTexts
    /\ spawned + Len(fetches(out.spawn)) <= max_fetches

\* the handler's outcome becomes the next state of the application
ApplyApp(out) ==
    /\ search_state' = out.app.search_state
    /\ search_history' = out.app.search_history
    /\ input_state' = out.app.input_state
    /\ search_results_state' = out.app.search_results_state
    /\ current_screen' = out.app.current_screen
    /\ should_exit' = out.app.should_exit
    /\ tasks' = tasks (+) spawn_bag(out.spawn)
    /\ panicked' = out.panic
    /\ spawned' = spawned + Len(fetches(out.spawn))
    /\ last_submitted' = submitted_after(out.spawn)

\* the same, in the runs that leave the display out
Apply(out) == ApplyApp(out) /\ UNCHANGED display_vars

\* the tick branch of select!: a key event is read and handled
KeyEvent(key, max_fetches) ==
    /\ Running
    /\ LET out == handle_key(App, key)
       IN WithinBounds(out, max_fetches) /\ Apply(out)
    /\ UNCHANGED <<message_rx, history_file>>

\* the recv branch of select!: the oldest message is handled
ReceiveMessage ==
    /\ Running
    /\ message_rx # <<>>
    /\ Apply(handle_message(App, Head(message_rx)))
    /\ message_rx' = Tail(message_rx)
    /\ UNCHANGED history_file

\* what a task sends when it is done
TaskDone(task, msgs, file) ==
    /\ tasks' = tasks (-) SetToBag({task})
    /\ message_rx' = message_rx \o msgs
    /\ history_file' = file
    /\ UNCHANGED <<search_state, search_history, input_state, search_results_state,
                   current_screen, should_exit, panicked, spawned, last_submitted>>
    /\ UNCHANGED display_vars

\* a fetch task gets its response
FetchOk(task) ==
    /\ Running
    /\ is_fetch(task)
    /\ \E data \in fetch_code_results(task.query, task.page) :
          TaskDone(task,
                   <<IF task.kind = "search"
                     THEN SearchComplete(data, task.query)
                     ELSE PaginationComplete(data, unwrap(task.page))>>,
                   history_file)

\* a fetch task fails
FetchErr(task) ==
    /\ Running
    /\ is_fetch(task)
    /\ TaskDone(task,
                <<IF task.kind = "search" THEN SearchError ELSE PaginationError>>,
                history_file)

\* history::load_history returns Ok
LoadHistoryOk(task) ==
    /\ Running
    /\ task.kind = "load"
    /\ TaskDone(task,
                <<HistoryLoaded(IF history_file = None THEN <<>>
                                ELSE unwrap(history_file))>>,
                history_file)

\* history::load_history returns Err: nothing is sent
LoadHistoryErr(task) ==
    /\ Running
    /\ task.kind = "load"
    /\ TaskDone(task, <<>>, history_file)

\* history::save_history writes the snapshot it was given
SaveHistoryOk(task) ==
    /\ Running
    /\ task.kind = "save"
    /\ TaskDone(task, <<>>, Some(task.history))

\* history::save_history fails: the error is dropped
SaveHistoryErr(task) ==
    /\ Running
    /\ task.kind = "save"
    /\ TaskDone(task, <<>>, history_file)

Next ==
    \/ \E key \in Keys : KeyEvent(key, MaxFetches)
    \/ ReceiveMessage
    \/ \E task \in BagToSet(tasks) : FetchOk(task)
    \/ \E task \in BagToSet(tasks) : FetchErr(task)
    \/ \E task \in BagToSet(tasks) : LoadHistoryOk(task)
    \/ \E task \in BagToSet(tasks) : LoadHistoryErr(task)
    \/ \E task \in BagToSet(tasks) : SaveHistoryOk(task)
    \/ \E task \in BagToSet(tasks) : SaveHistoryErr(task)

Spec == Init /\ [][Next]_vars

\* the runs in which the history tasks (load, save) have not finished yet
NextSearch ==
    \/ \E key \in Keys : KeyEvent(key, MaxSearchFetches)
    \/ ReceiveMessage
    \/ \E task \in BagToSet(tasks) : FetchOk(task)
    \/ \E task \in BagToSet(tasks) : FetchErr(task)

SpecSearch == Init /\ [][NextSearch]_vars

\* the same, with one more fetch
NextStale ==
    \/ \E key \in Keys : KeyEvent(key, MaxStaleFetches)
    \/ ReceiveMessage
    \/ \E task \in BagToSet(tasks) : FetchOk(task)
    \/ \E task \in BagToSet(tasks) : FetchErr(task)

SpecStale == Init /\ [][NextStale]_vars

----------------------------------------------------------------------------
(* The loop with fetches that complete and a queue that is received from *)

\* fetch tasks spawned in such a run
MaxLiveFetches == 2

\* some fetch in flight gets its response or fails
FetchDone == \E task \in BagToSet(tasks) : FetchOk(task) \/ FetchErr(task)

NextLive ==
    \/ \E key \in Keys : KeyEvent(key, MaxLiveFetches)
    \/ ReceiveMessage
    \/ \E task \in BagToSet(tasks) : FetchOk(task)
    \/ \E task \in BagToSet(tasks) : FetchErr(task)

\* select! takes the recv branch when a message waits; a spawned fetch runs
\* to its end
SpecLive ==
    /\ Init
    /\ [][NextLive]_vars
    /\ WF_vars(ReceiveMessage)
    /\ WF_vars(FetchDone)

----------------------------------------------------------------------------
(* Typing at the prompt, with characters of more than one byte *)

\* the keys of the prompt's text input, and the keys that recall the history
InputKeys ==
    {CharKey("a", FALSE), CharKey(E_ACUTE, FALSE)}
    \cup {Key(code) : code \in {"Backspace", "Delete", "Left", "Right", "Home",
                                "End", "Down", "Up"}}

\* the characters of the prompt text
MaxInput == 3

\* history.json: two saved searches
InputHistory == << <<E_ACUTE>>, <<"a", E_ACUTE>> >>

InitInput ==
    /\ search_state = Idle
    /\ search_history = SearchHistory_default
    /\ input_state = TextInputState_default
    /\ search_results_state = SearchResultsState_default
    /\ current_screen = "SearchPrompt"
    /\ should_exit = FALSE
    /\ message_rx = <<>>
    /\ tasks = SetToBag({LoadHistoryTask})
    /\ history_file = Some(InputHistory)
    /\ panicked = FALSE
    /\ spawned = 0
    /\ last_submitted = None
    /\ vertical_scroll = 0
    /\ terminal = DefaultTerminal
    /\ filler = NoCall
    /\ blitter = NoCall
    /\ segmenter = NoCall
    /\ renderer = NoCall
    /\ layouter = NoCall

\* the tick branch of select!: a key of the text input is read and handled
InputKey(key) ==
    /\ Running
    /\ LET out == handle_key(App, key)
       IN /\ Len(out.app.input_state.input) <= MaxInput
          /\ Apply(out)
    /\ UNCHANGED <<message_rx, history_file>>

NextInput ==
    \/ \E key \in InputKeys : InputKey(key)
    \/ ReceiveMessage
    \/ \E task \in BagToSet(tasks) : LoadHistoryOk(task)

SpecInput == InitInput /\ [][NextInput]_vars

----------------------------------------------------------------------------
(* Browsing a list of results: the loop with its terminal.draw *)

\* the fields App::new and AppState::default leave
AppNew ==
    [search_state |-> Idle,
     search_history |-> SearchHistory_default,
     input_state |-> TextInputState_default,
     search_results_state |-> SearchResultsState_default,
     current_screen |-> "SearchPrompt",
     should_exit |-> FALSE]

\* the query of the browsing runs
BrowseQuery == <<"j">>

\* a hit whose text matches have the given fragments
BrowseItem(path, fragments) ==
    [path |-> path, full_name |-> BrowseQuery,
     text_matches |-> [i \in 1..Len(fragments) |-> TextMatch(fragments[i])]]

\* fragments of one, two and three lines, and of no line
OneLine == <<"j">>
TwoLines == <<"y", "\n", "j">>
ThreeLines == <<"j", "\r", "\n", "y", "\n", "j">>
NoLine == <<>>

\* a fragment of `n` lines
RECURSIVE Lines(_)
Lines(n) == IF n = 1 THEN OneLine ELSE OneLine \o <<"\n">> \o Lines(n - 1)

\* the longest fragment of the browsing runs has this many lines
MaxLines == 6

\* the single pages the service answers BrowseQuery with
BrowseResponses ==
    {CodeResultsWithPagination(
         <<BrowseItem(<<"x">>, <<OneLine, TwoLines, <<"y">>, ThreeLines>>)>>,
         None),
     CodeResultsWithPagination(
         <<BrowseItem(<<"x">>, <<NoLine, Lines(MaxLines)>>),
           BrowseItem(<<"z">>, <<OneLine>>)>>,
         None)}

\* the fields once BrowseQuery has been typed and submitted on a fresh App
\* and the answer `data` handled
AppBrowsing(data) ==
    LET typed == handle_key(AppNew, CharKey("j", FALSE)).app
        submitted == handle_key(typed, Key("Enter")).app
    IN handle_message(submitted, SearchComplete(data, BrowseQuery)).app

\* the sizes of the terminal: Rect(0, 0, width, height)
Terminals == {Rect(0, 0, 7, 13), Rect(0, 0, 7, 20), Rect(0, 0, 6, 9)}

InitBrowse ==
    /\ \E data \in BrowseResponses :
         /\ search_state = AppBrowsing(data).search_state
         /\ search_history = AppBrowsing(data).search_history
         /\ input_state = AppBrowsing(data).input_state
         /\ search_results_state = AppBrowsing(data).search_results_state
         /\ current_screen = AppBrowsing(data).current_screen
         /\ should_exit = AppBrowsing(data).should_exit
         /\ history_file = Some(AppBrowsing(data).search_history.searches)
    /\ message_rx = <<>>
    /\ tasks = EmptyBag
    /\ panicked = FALSE
    /\ spawned = 1
    /\ last_submitted = Some(BrowseQuery)
    /\ vertical_scroll = 0
    /\ terminal \in Terminals
    /\ filler = NoCall
    /\ blitter = NoCall
    /\ segmenter = NoCall
    /\ renderer = NoCall
    /\ layouter = NoCall

\* render_search_results_screen renders the SearchResults widget
shows_results ==
    /\ current_screen = "SearchResults"
    /\ search_state.tag \in {"Loaded", "LoadingMore"}

\* the area the SearchResults widget is rendered into
matches_area == matches_area_of(terminal, search_results_state.filter_mode)

\* the height of the viewport: inner_area.height
viewport_height == block_inner(matches_area).height

\* terminal.draw on the fields as they are: the scroll and the frame it leaves
drawn(overflow_checks) ==
    IF shows_results
    THEN SearchResults_render(matches_area, Buffer_empty(terminal),
                              search_state.results, search_results_state,
                              vertical_scroll, overflow_checks)
    ELSE [vertical_scroll |-> vertical_scroll, buf |-> Buffer_empty(terminal),
          panic |-> FALSE]

\* the frame is drawn at the top of every turn of the loop
Draw ==
    \E overflow_checks \in BOOLEAN :
        /\ vertical_scroll' = drawn(overflow_checks).vertical_scroll
        /\ ~drawn(overflow_checks).panic

\* a turn of the loop that reads a key: the frame is drawn, the key handled
BrowseKey(key) ==
    /\ Running
    /\ Draw
    /\ LET out == handle_key(App, key)
       IN WithinBounds(out, spawned) /\ ApplyApp(out)
    /\ UNCHANGED <<message_rx, history_file, terminal, filler, blitter, segmenter, renderer, layouter>>

\* a turn of the loop that reads a resize event: the frame is drawn, the
\* event dropped; the next frame has the new size
Resize(size) ==
    /\ Running
    /\ Draw
    /\ size # terminal
    /\ terminal' = size
    /\ UNCHANGED <<search_state, search_history, input_state, search_results_state,
                   current_screen, should_exit, message_rx, tasks, history_file,
                   panicked, spawned, last_submitted, filler, blitter, segmenter, renderer, layouter>>

\* the keys of the browsing runs: the cursor keys as well
BrowseKeys == Keys \cup {Key(code) : code \in {"Left", "Right", "Home", "End", "Delete"}}

NextBrowse ==
    \/ \E key \in BrowseKeys : BrowseKey(key)
    \/ \E size \in Terminals : Resize(size)

SpecBrowse == InitBrowse /\ [][NextBrowse]_vars

----------------------------------------------------------------------------
(* buffers::blit on its own *)

\* the areas of the buffers blit is given
BlitAreas == {Rect(0, 0, 2, 2), Rect(1, 1, 2, 1), Rect(0, 0, 1, 3)}

\* the offsets blit is given, per axis: none, one, the largest u16
BlitOffsets == {0, 1, U16 - 1}

\* a target buffer with content in every cell
target_buffer(area) == Buffer(area, [pos \in positions(area) |-> Border])

\* a source buffer whose cells tell their position; the cell in the top left
\* corner is blank
source_buffer(area) ==
    Buffer(area, [pos \in positions(area) |->
                     IF pos = <<area.x, area.y>> THEN Blank
                     ELSE Cell("match", pos[1], pos[2])])

\* a call of blit: its arguments, the build, and its outcome once it returned
BlitCall(tgt, src, tgt_offset, src_offset, overflow_checks, called, outcome) ==
    [tgt |-> tgt, src |-> src, tgt_offset |-> tgt_offset, src_offset |-> src_offset,
     overflow_checks |-> overflow_checks, called |-> called, outcome |-> outcome]

InitBlit ==
    /\ search_state = AppNew.search_state
    /\ search_history = AppNew.search_history
    /\ input_state = AppNew.input_state
    /\ search_results_state = AppNew.search_results_state
    /\ current_screen = AppNew.current_screen
    /\ should_exit = AppNew.should_exit
    /\ message_rx = <<>>
    /\ tasks = EmptyBag
    /\ history_file = None
    /\ panicked = FALSE
    /\ spawned = 0
    /\ last_submitted = None
    /\ vertical_scroll = 0
    /\ terminal = DefaultTerminal
    /\ filler = NoCall
    /\ segmenter = NoCall
    /\ renderer = NoCall
    /\ layouter = NoCall
    /\ \E tgt_area \in BlitAreas, src_area \in BlitAreas,
          tgt_offset \in BlitOffsets \X BlitOffsets,
          src_offset \in BlitOffsets \X BlitOffsets,
          overflow_checks \in BOOLEAN :
         blitter = BlitCall(target_buffer(tgt_area), source_buffer(src_area),
                            tgt_offset, src_offset, overflow_checks, FALSE,
                            BlitOutcome(target_buffer(tgt_area), FALSE))

\* blit is called and returns, or panics
CallBlit ==
    /\ ~blitter.called
    /\ blitter' = [blitter EXCEPT
                     !.called = TRUE,
                     !.outcome = blit(blitter.tgt, blitter.src, blitter.tgt_offset,
                                      blitter.src_offset, blitter.overflow_checks)]
    /\ UNCHANGED <<search_state, search_history, input_state, search_results_state,
                   current_screen, should_exit, message_rx, tasks, history_file,
                   panicked, spawned, last_submitted, vertical_scroll, terminal,
                   filler, segmenter, renderer, layouter>>

NextBlit == CallBlit

SpecBlit == InitBlit /\ [][NextBlit]_vars

----------------------------------------------------------------------------
(* fill_out_range_list (widgets/search_results.rs) *)

\* Range<usize>: start..end
Range(start, end) == [start |-> start, end |-> end]

\* Range::contains
Range_contains(range, p) == range.start <= p /\ p < range.end

RangeSegment(range, is_match) == [range |-> range, is_match |-> is_match]

\* a variant that looks for the ends of a in b only
are_ranges_overlapping_one_sided(a, b) ==
    Range_contains(b, a.start) \/ Range_contains(b, a.end)

\* a variant that takes every candidate for one that overlaps the context
are_ranges_overlapping_always(a, b) == TRUE

are_ranges_overlapping(a, b) ==
    \/ Range_contains(b, a.start)
    \/ Range_contains(b, a.end)
    \/ Range_contains(a, b.start)
    \/ Range_contains(a, b.end)

\* a variant that takes the first number
larger_first(a, b) == a

\* usize::max
larger(a, b) == IF a >= b THEN a ELSE b

\* a variant that lets a matched segment run to the end of its candidate
segment_end_unclipped(range, context) == range.end

\* the end of the matched segment of a candidate: range.end.min(context.end)
segment_end(range, context) == min(range.end, context.end)

\* the loop of fill_out_range_list over the candidates left, and its tail
RECURSIVE fill_from(_, _, _, _)
fill_from(context, segments, current, items) ==
    IF segments = <<>>
    THEN IF current < context.end
         THEN Append(items, RangeSegment(Range(current, context.end), FALSE))
         ELSE items
    ELSE LET range == Head(segments)
             unmatched == IF current < range.start
                          THEN <<RangeSegment(Range(current, range.start), FALSE)>>
                          ELSE <<>>
             start == larger(range.start, current)
             end == segment_end(range, context)
             matched == IF end > start
                        THEN <<RangeSegment(Range(start, end), TRUE)>>
                        ELSE <<>>
         IN IF ~are_ranges_overlapping(context, range)
            THEN fill_from(context, Tail(segments), current, items)
            ELSE fill_from(context, Tail(segments), end, items \o unmatched \o matched)

fill_out_range_list(context, segments) ==
    fill_from(context, segments, context.start, <<>>)

\* byte positions run from 0 to MaxPos
MaxPos == 5

\* a list holds up to MaxCandidates candidates
MaxCandidates == 2

\* the ranges start..end, start <= end, over the positions
Ranges ==
    {range \in [start : 0..MaxPos, end : 0..MaxPos] : range.start <= range.end}

\* "the ranges are assumed to be sorted": ascending, none overlapping the next
sorted_ranges(segments) ==
    \A i \in 1..(Len(segments) - 1) : segments[i].end <= segments[i + 1].start

\* the candidate lists
CandidateLists ==
    {segments \in UNION {[1..n -> Ranges] : n \in 0..MaxCandidates} :
        sorted_ranges(segments)}

\* a call of fill_out_range_list: its arguments and what it returned
FillCall(context, segments, called, items) ==
    [context |-> context, segments |-> segments, called |-> called, items |-> items]

InitRanges ==
    /\ search_state = AppNew.search_state
    /\ search_history = AppNew.search_history
    /\ input_state = AppNew.input_state
    /\ search_results_state = AppNew.search_results_state
    /\ current_screen = AppNew.current_screen
    /\ should_exit = AppNew.should_exit
    /\ message_rx = <<>>
    /\ tasks = EmptyBag
    /\ history_file = None
    /\ panicked = FALSE
    /\ spawned = 0
    /\ last_submitted = None
    /\ vertical_scroll = 0
    /\ terminal = DefaultTerminal
    /\ blitter = NoCall
    /\ segmenter = NoCall
    /\ renderer = NoCall
    /\ layouter = NoCall
    /\ \E context \in Ranges, segments \in CandidateLists :
         filler = FillCall(context, segments, FALSE, <<>>)

\* fill_out_range_list is called and returns
CallFill ==
    /\ ~filler.called
    /\ filler' = [filler EXCEPT
                    !.called = TRUE,
                    !.items = fill_out_range_list(filler.context, filler.segments)]
    /\ UNCHANGED <<search_state, search_history, input_state, search_results_state,
                   current_screen, should_exit, message_rx, tasks, history_file,
                   panicked, spawned, last_submitted, vertical_scroll, terminal,
                   blitter, segmenter, renderer, layouter>>

NextRanges == CallFill

SpecRanges == InitRanges /\ [][NextRanges]_vars

----------------------------------------------------------------------------
(* fill_out_range_list on candidate lists of any kind *)

\* byte positions run from 0 to MaxAnyPos
MaxAnyPos == 3

\* a list holds up to MaxAnyCandidates candidates
MaxAnyCandidates == 2

\* the contexts: start..end, start <= end
AnyContexts ==
    {range \in [start : 0..MaxAnyPos, end : 0..MaxAnyPos] : range.start <= range.end}

\* the candidates: every Range<usize> over the positions, start..end with
\* start > end included
AnyRanges == [start : 0..MaxAnyPos, end : 0..MaxAnyPos]

\* the candidate lists: in any order, overlapping or not
AnyCandidateLists == UNION {[1..n -> AnyRanges] : n \in 0..MaxAnyCandidates}

InitAnyRanges ==
    /\ search_state = AppNew.search_state
    /\ search_history = AppNew.search_history
    /\ input_state = AppNew.input_state
    /\ search_results_state = AppNew.search_results_state
    /\ current_screen = AppNew.current_screen
    /\ should_exit = AppNew.should_exit
    /\ message_rx = <<>>
    /\ tasks = EmptyBag
    /\ history_file = None
    /\ panicked = FALSE
    /\ spawned = 0
    /\ last_submitted = None
    /\ vertical_scroll = 0
    /\ terminal = DefaultTerminal
    /\ blitter = NoCall
    /\ segmenter = NoCall
    /\ renderer = NoCall
    /\ layouter = NoCall
    /\ \E context \in AnyContexts, segments \in AnyCandidateLists :
         filler = FillCall(context, segments, FALSE, <<>>)

SpecAnyRanges == InitAnyRanges /\ [][NextRanges]_vars

----------------------------------------------------------------------------
(* smart_iter_lines on its own *)

SmartLineItem(content, start) == [content |-> content, start |-> start]

\* the items smart_iter_lines yields for what is left of the string, `counter`
\* bytes having been consumed
RECURSIVE smart_lines_from(_, _)
smart_lines_from(s, counter) ==
    IF s = <<>> THEN <<>>
    ELSE LET next_newline_carriage_return == find(s, <<"\r", "\n">>)
             next_newline == find(s, <<"\n">>)
             offset == IF is_some(next_newline_carriage_return) THEN 2
                       ELSE IF is_some(next_newline) THEN 1
                       ELSE 0
             line_end == IF is_some(next_newline_carriage_return)
                         THEN unwrap(next_newline_carriage_return)
                         ELSE IF is_some(next_newline) THEN unwrap(next_newline)
                         ELSE Len(s)
         IN <<SmartLineItem(SubSeq(s, 1, line_end), counter)>>
            \o smart_lines_from(SubSeq(s, line_end + offset + 1, Len(s)),
                                counter + line_end + offset)

smart_iter_lines(s) == smart_lines_from(s, 0)

\* the bytes of the strings segmented
LineChars == {"a", "\r", "\n"}

\* the strings segmented have up to MaxText bytes
MaxText == 5

LineTexts == UNION {[1..n -> LineChars] : n \in 0..MaxText}

\* a call of smart_iter_lines: the string and the items collected
LinesCall(s, called, lines) == [s |-> s, called |-> called, lines |-> lines]

InitLines ==
    /\ search_state = AppNew.search_state
    /\ search_history = AppNew.search_history
    /\ input_state = AppNew.input_state
    /\ search_results_state = AppNew.search_results_state
    /\ current_screen = AppNew.current_screen
    /\ should_exit = AppNew.should_exit
    /\ message_rx = <<>>
    /\ tasks = EmptyBag
    /\ history_file = None
    /\ panicked = FALSE
    /\ spawned = 0
    /\ last_submitted = None
    /\ vertical_scroll = 0
    /\ terminal = DefaultTerminal
    /\ filler = NoCall
    /\ blitter = NoCall
    /\ renderer = NoCall
    /\ layouter = NoCall
    /\ \E s \in LineTexts : segmenter = LinesCall(s, FALSE, <<>>)

\* smart_iter_lines is called and its items collected
CallLines ==
    /\ ~segmenter.called
    /\ segmenter' = [segmenter EXCEPT !.called = TRUE,
                                      !.lines = smart_iter_lines(segmenter.s)]
    /\ UNCHANGED <<search_state, search_history, input_state, search_results_state,
                   current_screen, should_exit, message_rx, tasks, history_file,
                   panicked, spawned, last_submitted, vertical_scroll, terminal,
                   filler, blitter, renderer, layouter>>

NextLines == CallLines

SpecLines == InitLines /\ [][NextLines]_vars

----------------------------------------------------------------------------
(* render_text_match: the lines of a fragment and their highlights *)

\* MatchSegment: the byte offsets (start, end) of a match in the fragment
MatchSegment(start, end) == [indices |-> <<start, end>>]

\* a TextMatch with its match segments
MatchedText(fragment, matches) == [fragment |-> fragment, matches |-> matches]

\* str::replace of a one-byte pattern
RECURSIVE replace(_, _, _)
replace(s, from, to) ==
    IF s = <<>> THEN <<>>
    ELSE (IF Head(s) = from THEN to ELSE <<Head(s)>>) \o replace(Tail(s), from, to)

\* "Translate tabs to spaces", "Replace carriage returns"
substituted(content) ==
    replace(replace(content, "\t", <<" ", " ", " ", " ">>), "\r", <<>>)

fill_out_segments(context, segments) ==
    fill_out_range_list(context,
                        [j \in 1..Len(segments) |->
                            Range(segments[j].indices[1], segments[j].indices[2])])

\* a Span of a rendered line: its text, and whether it is styled as a match
Span(content, is_match) == [content |-> content, is_match |-> is_match]

\* the body of the loop over the lines: the spans of one line
render_line(line, matches) ==
    LET content == substituted(line.content)
        line_start == line.start
        line_end == line_start + Len(content)
        abs_line_range == Range(line_start, line_end)
        segments == fill_out_segments(abs_line_range, matches)
    IN [k \in 1..Len(segments) |->
           Span(SubSeq(content, segments[k].range.start - line.start + 1,
                       segments[k].range.end - line.start),
                segments[k].is_match)]

\* render_text_match: the lines handed to the Paragraph
render_text_match(text_match) ==
    LET smart_lines == smart_iter_lines(text_match.fragment)
    IN [i \in 1..Len(smart_lines) |->
           render_line(smart_lines[i], text_match.matches)]

\* the bytes of the fragments rendered
FragmentChars == {"a", "b", "\t", "\r", "\n"}

\* the fragments rendered have up to MaxFragment bytes
MaxFragment == 3

Fragments == UNION {[1..n -> FragmentChars] : n \in 0..MaxFragment}

\* no match, or one non-empty match within the fragment
MatchLists(fragment) ==
    {<<>>} \cup {<<MatchSegment(start, end)>> :
                    start \in 0..Len(fragment), end \in 1..Len(fragment)}

\* a call of render_text_match: the text match and the lines rendered
RenderCall(text_match, called, rendered) ==
    [text_match |-> text_match, called |-> called, rendered |-> rendered]

InitFragment ==
    /\ search_state = AppNew.search_state
    /\ search_history = AppNew.search_history
    /\ input_state = AppNew.input_state
    /\ search_results_state = AppNew.search_results_state
    /\ current_screen = AppNew.current_screen
    /\ should_exit = AppNew.should_exit
    /\ message_rx = <<>>
    /\ tasks = EmptyBag
    /\ history_file = None
    /\ panicked = FALSE
    /\ spawned = 0
    /\ last_submitted = None
    /\ vertical_scroll = 0
    /\ terminal = DefaultTerminal
    /\ filler = NoCall
    /\ blitter = NoCall
    /\ segmenter = NoCall
    /\ \E fragment \in Fragments :
         \E matches \in {m \in MatchLists(fragment) :
                            \A j \in 1..Len(m) : m[j].indices[1] < m[j].indices[2]} :
           renderer = RenderCall(MatchedText(fragment, matches), FALSE, <<>>)
    /\ layouter = NoCall

\* render_text_match builds the lines of the text match
CallRender ==
    /\ ~renderer.called
    /\ renderer' = [renderer EXCEPT !.called = TRUE,
                                    !.rendered = render_text_match(renderer.text_match)]
    /\ UNCHANGED <<search_state, search_history, input_state, search_results_state,
                   current_screen, should_exit, message_rx, tasks, history_file,
                   panicked, spawned, last_submitted, vertical_scroll, terminal,
                   filler, blitter, segmenter, layouter>>

NextFragment == CallRender

SpecFragment == InitFragment /\ [][NextFragment]_vars

----------------------------------------------------------------------------
(* The layout of the canvas in SearchResults::render on its own *)

\* the line counts of the text matches: a height h stands for a fragment of
\* h lines
CanvasHeights == {1, 2, 32765, 65533}

\* text matches that pass the filter
MaxMatches == 2

\* the heights of the viewport
ViewportHeights == {3, 8}

HeightLists ==
    UNION {[1..n -> CanvasHeights] : n \in 0..MaxMatches}

LayoutCall(heights, selected_item_idx, scroll, h, called, tbuf_area, offsets,
           vertical_scroll_after, blit_scroll) ==
    [heights |-> heights, selected_item_idx |-> selected_item_idx,
     scroll |-> scroll, h |-> h, called |-> called, tbuf_area |-> tbuf_area,
     offsets |-> offsets, vertical_scroll |-> vertical_scroll_after,
     blit_scroll |-> blit_scroll]

InitCanvas ==
    /\ search_state = AppNew.search_state
    /\ search_history = AppNew.search_history
    /\ input_state = AppNew.input_state
    /\ search_results_state = AppNew.search_results_state
    /\ current_screen = AppNew.current_screen
    /\ should_exit = AppNew.should_exit
    /\ message_rx = <<>>
    /\ tasks = EmptyBag
    /\ history_file = None
    /\ panicked = FALSE
    /\ spawned = 0
    /\ last_submitted = None
    /\ vertical_scroll = 0
    /\ terminal = DefaultTerminal
    /\ filler = NoCall
    /\ blitter = NoCall
    /\ segmenter = NoCall
    /\ renderer = NoCall
    /\ \E heights \in HeightLists :
         \E selected_item_idx \in 0..saturating_sub(Len(heights), 1) :
           \E scroll \in {0, offset_of(heights, selected_item_idx)} :
             \E h \in ViewportHeights :
               layouter = LayoutCall(heights, selected_item_idx, scroll, h,
                                     FALSE, Rect(0, 0, 0, 0), <<0, 0>>, 0, 0)

\* render sizes the canvas, adjusts the scroll and hands it to blit
CallLayout ==
    /\ ~layouter.called
    /\ LET offset_start == offset_of(layouter.heights, layouter.selected_item_idx)
           offset_end == offset_of(layouter.heights, layouter.selected_item_idx + 1)
           new_scroll == scroll_adjusted(offset_start, offset_end,
                                         layouter.scroll, layouter.h)
       IN layouter' =
            [layouter EXCEPT !.called = TRUE,
                             !.tbuf_area = canvas_area(terminal.width, layouter.heights),
                             !.offsets = <<offset_start, offset_end>>,
                             !.vertical_scroll = new_scroll,
                             !.blit_scroll = source_scroll(new_scroll)]
    /\ UNCHANGED <<search_state, search_history, input_state, search_results_state,
                   current_screen, should_exit, message_rx, tasks, history_file,
                   panicked, spawned, last_submitted, vertical_scroll, terminal,
                   filler, blitter, segmenter, renderer>>

NextCanvas == CallLayout

SpecCanvas == InitCanvas /\ [][NextCanvas]_vars

----------------------------------------------------------------------------
(* The program started on a long history.json *)

\* the characters of the saved searches
EntryChars == <<"a", "b", "c", "d", "e", "f", "g", "h", "i", "k", "l">>

\* the i-th saved search: two characters, a different pair for every i
Entry(i) ==
    <<EntryChars[(i \div Len(EntryChars)) + 1], EntryChars[(i % Len(EntryChars)) + 1]>>

\* a history.json of n saved searches, the second of them "j"
LongHistory(n) == [i \in 1..n |-> IF i = 2 THEN <<"j">> ELSE Entry(i)]

\* the lengths of history.json: short, and around MAX_HISTORY_SIZE
HistoryLengths ==
    {0, 2, MAX_HISTORY_SIZE - 1, MAX_HISTORY_SIZE, MAX_HISTORY_SIZE + 1}

\* fetch tasks spawned in a run on a long history
MaxHistoryFetches == 1

InitHistory ==
    /\ search_state = Idle
    /\ search_history = SearchHistory_default
    /\ input_state = TextInputState_default
    /\ search_results_state = SearchResultsState_default
    /\ current_screen = "SearchPrompt"
    /\ should_exit = FALSE
    /\ message_rx = <<>>
    /\ tasks = SetToBag({LoadHistoryTask})
    /\ \E n \in HistoryLengths : history_file = Some(LongHistory(n))
    /\ panicked = FALSE
    /\ spawned = 0
    /\ last_submitted = None
    /\ vertical_scroll = 0
    /\ terminal = DefaultTerminal
    /\ filler = NoCall
    /\ blitter = NoCall
    /\ segmenter = NoCall
    /\ renderer = NoCall
    /\ layouter = NoCall

NextHistory ==
    \/ \E key \in Keys : KeyEvent(key, MaxHistoryFetches)
    \/ ReceiveMessage
    \/ \E task \in BagToSet(tasks) : FetchOk(task)
    \/ \E task \in BagToSet(tasks) : FetchErr(task)
    \/ \E task \in BagToSet(tasks) : LoadHistoryOk(task)
    \/ \E task \in BagToSet(tasks) : LoadHistoryErr(task)
    \/ \E task \in BagToSet(tasks) : SaveHistoryOk(task)
    \/ \E task \in BagToSet(tasks) : SaveHistoryErr(task)

SpecHistory == InitHistory /\ [][NextHistory]_vars

----------------------------------------------------------------------------
(* Properties *)

\* the message the loop would receive next
next_msg == Head(message_rx)

\* the query a response of the service answers: its hits carry it
response_query(data) == data.results.items[1].full_name

\* a step of the recv branch that handles a message of one of `types`
Receives(types) == ReceiveMessage /\ next_msg.type \in types

\* C1: a PaginationComplete that answers a next-page fetch for another query
\* than the search state's leaves results, pagination and current_page alone
C1_StalePageIsIgnored ==
    [][(/\ Receives({"PaginationComplete"})
        /\ response_query(next_msg.results) # search_state.query)
       => /\ search_state'.results = search_state.results
          /\ search_state'.pagination = search_state.pagination
          /\ search_state'.current_page = search_state.current_page]_vars

\* C2: a Loaded or LoadingMore search state holds the query submitted last,
\* and results that answer it
C2_LoadedIsLatestQuery ==
    search_state.tag \in {"Loaded", "LoadingMore"}
    => /\ last_submitted = Some(search_state.query)
       /\ \A i \in 1..Len(search_state.results.items) :
             search_state.results.items[i].full_name = search_state.query

\* C3 (as stated): a step from LoadingMore never ends in Idle, and never in
\* Loading for another query
C3_LoadingMoreOnlyToLoaded ==
    [][search_state.tag = "LoadingMore"
       => /\ search_state'.tag # "Idle"
          /\ ~(search_state'.tag = "Loading"
               /\ search_state'.query # search_state.query)]_vars

\* C3: a step that changes a LoadingMore search state either handles a
\* PaginationComplete or a SearchComplete and ends in Loaded, or is a submit at
\* the prompt and ends in Loading for the trimmed text of the prompt; it never
\* ends in Idle
C3_LoadingMoreSuccessors ==
    [][(search_state.tag = "LoadingMore" /\ search_state' # search_state)
       => \/ /\ Receives({"PaginationComplete", "SearchComplete"})
             /\ search_state'.tag = "Loaded"
          \/ /\ current_screen = "SearchPrompt"
             /\ current_screen' = "SearchResults"
             /\ trim(input_state.input) # <<>>
             /\ search_state' = Loading(trim(input_state.input))]_vars

\* C3 witness: a search for another query was submitted while the next page of
\* the previous one was being fetched (three fetches: search, page, search)
C3_SubmittedWhileLoadingMore ==
    /\ search_state.tag = "Loading"
    /\ spawned = 3
    /\ \E task \in BagToSet(tasks) :
          task.kind = "page" /\ task.query # search_state.query

\* C4: a PaginationComplete handled in LoadingMore ends in Loaded with the
\* items held before followed by the response's items, all of them, in order
C4_MergeAppends ==
    [][(Receives({"PaginationComplete"}) /\ search_state.tag = "LoadingMore")
       => /\ search_state'.tag = "Loaded"
          /\ search_state'.results.items =
                search_state.results.items \o next_msg.results.results.items]_vars

\* C4 witness: page 1 (two hits) and page 2 (the first hit again) are loaded
C4_TwoPagesLoaded ==
    /\ search_state.tag = "Loaded"
    /\ search_state.current_page = 2
    /\ search_state.results.items =
          <<ItemOne(search_state.query), ItemTwo(search_state.query),
            ItemOne(search_state.query)>>

\* C5 (as stated): every step from LoadingMore to Loaded adds one to
\* current_page
C5_PageIncrements ==
    [][(search_state.tag = "LoadingMore" /\ search_state'.tag = "Loaded")
       => search_state'.current_page = search_state.current_page + 1]_vars

----------------------------------------------------------------------------
(* Keys pressed on the results screen *)

on_results_screen == current_screen = "SearchResults"

has_results == search_state.tag \in {"Loaded", "LoadingMore"}

has_next_page ==
    /\ is_some(search_state.pagination)
    /\ is_some(unwrap(search_state.pagination).next)

\* the next-item keys: 'j' (with any modifier) and Down
next_item_keys == {CharKey("j", FALSE), CharKey("j", TRUE), Key("Down")}

\* the previous-item keys: 'k' (with any modifier) and Up
prev_item_keys == {CharKey("k", FALSE), CharKey("k", TRUE), Key("Up")}

\* the positions <<item, text match>> of the results held
match_positions ==
    UNION {{<<i, k>> : k \in 1..Len(search_state.results.items[i].text_matches)} :
           i \in 1..Len(search_state.results.items)}

\* how many text matches of the results held pass the filter
filtered_count ==
    Cardinality({p \in match_positions :
        should_include_match(search_results_state,
                             search_state.results.items[p[1]],
                             search_state.results.items[p[1]].text_matches[p[2]])})

\* the selection after `key`
selected_after(key) == handle_key(App, key).app.search_results_state.selected_item_idx

selected == search_results_state.selected_item_idx

\* C6 (as stated): in Loaded, a navigation key that moves the selection to an
\* index >= filtered count - 5 while a next page exists starts LoadingMore,
\* and nothing else does
C6_NavigationNearEndLoadsMore ==
    (on_results_screen /\ search_state.tag = "Loaded"
     /\ search_results_state.filter_mode # "Editing")
    => \A key \in next_item_keys \cup prev_item_keys :
          LET loads_more == handle_key(App, key).app.search_state.tag = "LoadingMore"
              near_end == /\ filtered_count > 0
                          /\ selected_after(key) >= filtered_count - NearEndMargin
          IN /\ (near_end /\ selected_after(key) # selected /\ has_next_page)
                => loads_more
             /\ loads_more => (near_end /\ has_next_page)

\* the next-item key is pressed where it loads the next page
triggers_load_more(key) ==
    /\ on_results_screen
    /\ key \in next_item_keys
    /\ search_results_state.filter_mode # "Editing"
    /\ filtered_count > 0
    /\ (selected + 1) % filtered_count >= filtered_count - NearEndMargin
    /\ has_next_page

\* C6: in Loaded, a key starts LoadingMore (same query, results, pagination
\* and page) and dispatches one fetch, for page current_page + 1, exactly when
\* it is a next-item key pressed on the results screen with the filter not
\* being edited, a filtered count n > 0, (selected + 1) mod n >= n - 5 and a
\* next link; any other key on the results screen, the previous-item keys
\* included, leaves the search state alone and dispatches nothing; and no
\* other step takes Loaded to LoadingMore
C6_LoadsMoreOnNextKeyNearEnd ==
    /\ [](search_state.tag = "Loaded"
          => \A key \in Keys \cup prev_item_keys :
                LET out == handle_key(App, key)
                IN IF triggers_load_more(key)
                   THEN /\ out.app.search_state =
                              LoadingMore(search_state.query, search_state.results,
                                          search_state.pagination,
                                          search_state.current_page)
                        /\ out.spawn = <<PageTask(search_state.query,
                                                  search_state.current_page + 1)>>
                   ELSE /\ out.app.search_state.tag # "LoadingMore"
                        /\ on_results_screen
                           => /\ out.app.search_state = search_state
                              /\ out.spawn = <<>>)
    /\ [][(search_state.tag = "Loaded" /\ search_state'.tag = "LoadingMore")
          => /\ \E key \in next_item_keys : triggers_load_more(key)
             /\ tasks' = tasks (+) SetToBag({PageTask(search_state.query,
                                                      search_state.current_page + 1)})
             /\ message_rx' = message_rx]_vars

\* C6 witness: the next-item key moved the selection from 0 to 1 of 6, and
\* page 2 is being fetched
C6_NextPageRequested ==
    /\ search_state.tag = "LoadingMore"
    /\ search_state.current_page = 1
    /\ selected = 1
    /\ filtered_count = 6
    /\ BagIn(PageTask(search_state.query, 2), tasks)

\* C7: handling a SearchComplete leaves the search state Loaded with the
\* message's query, the response's results and pagination, and page 1
C7_SearchCompleteLoadsFirstPage ==
    [][Receives({"SearchComplete"})
       => search_state' = Loaded(next_msg.query, next_msg.results.results,
                                 next_msg.results.pagination, 1)]_vars

\* C7 witness: a one-hit response replaced the two hits whose next page is
\* still being fetched
C7_ResultsReplaced ==
    /\ search_state.tag = "Loaded"
    /\ search_state.current_page = 1
    /\ search_state.results.items = <<ItemOne(search_state.query)>>
    /\ search_state.pagination = None
    /\ \E task \in BagToSet(tasks) : task.kind = "page"

\* a step that submits the prompt
Submits == current_screen = "SearchPrompt" /\ current_screen' = "SearchResults"

\* a step from Loaded to LoadingMore
LoadsMore == search_state.tag = "Loaded" /\ search_state'.tag = "LoadingMore"

\* the fetch tasks among the tasks of a bag
fetch_tasks(bag) == {task \in BagToSet(bag) : is_fetch(task)}

\* C8: no step starts where a handler has panicked; handling a SearchError or
\* a PaginationError panics and spawns nothing; a submit spawns one search
\* task, for the query of the new Loading state; a step from Loaded to
\* LoadingMore spawns one page task, for the page after current_page; and no
\* other step spawns a fetch task
C8_ErrorsAreFatalFetchesSingle ==
    [][/\ ~panicked
       /\ Receives({"SearchError", "PaginationError"})
          => panicked' /\ tasks' = tasks /\ spawned' = spawned
       /\ Submits
          => /\ tasks' = tasks (+) SetToBag({SearchTask(search_state'.query)})
             /\ search_state'.tag = "Loading"
       /\ LoadsMore
          => tasks' = tasks (+) SetToBag({PageTask(search_state.query,
                                                   search_state.current_page + 1)})
       /\ (~Submits /\ ~LoadsMore)
          => \A task \in fetch_tasks(tasks') :
                CopiesIn(task, tasks') <= CopiesIn(task, tasks)]_vars

\* C8 witness: the fetch of a next page failed, and the error was handled
C8_PanickedWhileLoadingMore ==
    /\ panicked
    /\ search_state.tag = "LoadingMore"
    /\ fetch_tasks(tasks) = {}
    /\ message_rx = <<>>

\* C9 (as stated): with results shown, the filter not being edited and a
\* filtered count n > 0, the next-item key selects (i + 1) mod n and the
\* previous-item key selects (i - 1) mod n
C9_NavigationWraps ==
    (on_results_screen /\ has_results
     /\ search_results_state.filter_mode # "Editing" /\ filtered_count > 0)
    => /\ \A key \in next_item_keys :
             selected_after(key) = (selected + 1) % filtered_count
       /\ \A key \in prev_item_keys :
             selected_after(key) = (selected - 1) % filtered_count

\* C9: with results shown, the filter not being edited and a filtered count
\* n > 0, the next-item key selects (i + 1) mod n and the previous-item key
\* selects i - 1, or 0 when i is 0; n counts the matches that pass the filter
C9_NavigationStep ==
    (on_results_screen /\ has_results
     /\ search_results_state.filter_mode # "Editing" /\ filtered_count > 0)
    => /\ \A key \in next_item_keys :
             selected_after(key) = (selected + 1) % filtered_count
       /\ \A key \in prev_item_keys :
             selected_after(key) = IF selected = 0 THEN 0 ELSE selected - 1

\* C9 witness: a filter is applied that hides some matches, and the last of
\* the matches it lets through is selected
C9_LastFilteredSelected ==
    /\ on_results_screen /\ has_results
    /\ search_results_state.filter_mode = "Applied"
    /\ search_results_state.filter_input_state.input # <<>>
    /\ filtered_count > 1
    /\ filtered_count < Cardinality(match_positions)
    /\ selected = filtered_count - 1

\* the results state after '/', with or without a modifier
after_slash(ctrl) == handle_key(App, CharKey("/", ctrl)).app.search_results_state

\* C10 (as stated): on the results screen with the filter Inactive or Applied,
\* '/' makes the filter mode Editing and keeps the filter text
C10_SlashAlwaysEdits ==
    (on_results_screen
     /\ search_results_state.filter_mode \in {"Inactive", "Applied"})
    => \A ctrl \in BOOLEAN :
          /\ after_slash(ctrl).filter_mode = "Editing"
          /\ after_slash(ctrl).filter_input_state =
                search_results_state.filter_input_state

\* C10: on the results screen with the filter Inactive or Applied, '/' makes
\* the filter mode Editing when the search state is Loaded or LoadingMore and
\* leaves it alone when it is Loading; either way it keeps the filter text and
\* the selection, and changes nothing else
C10_SlashEditsWhenResultsHeld ==
    (on_results_screen
     /\ search_results_state.filter_mode \in {"Inactive", "Applied"})
    => \A ctrl \in BOOLEAN :
          LET out == handle_key(App, CharKey("/", ctrl))
          IN /\ out.app =
                   [App EXCEPT !.search_results_state.filter_mode =
                                   IF has_results THEN "Editing" ELSE @]
             /\ out.spawn = <<>>
             /\ ~out.panic

\* C10 witness: an applied filter is being edited again: its text is kept,
\* and so is the selection made while it was applied
C10_EditingAppliedFilter ==
    /\ on_results_screen /\ has_results
    /\ search_results_state.filter_mode = "Editing"
    /\ search_results_state.filter_input_state.input # <<>>
    /\ selected > 0

\* the outcome of Esc
after_esc == handle_key(App, Key("Esc"))

filter_text == search_results_state.filter_input_state.input

\* C11: Esc on the results screen while the filter is being edited changes
\* the filter mode and nothing else: to Inactive when the filter text is
\* empty, to Applied when it is not; the text, the selection and the screen
\* stay as they are
C11_EscEndsEditing ==
    (on_results_screen /\ search_results_state.filter_mode = "Editing")
    => /\ after_esc.app =
             [App EXCEPT !.search_results_state.filter_mode =
                             IF filter_text = <<>> THEN "Inactive" ELSE "Applied"]
       /\ after_esc.app.current_screen = "SearchResults"
       /\ after_esc.spawn = <<>>
       /\ ~after_esc.panic

\* C11 witness: the filter is being edited and its text is empty, with a
\* selection made before
C11_EditingEmptyFilter ==
    /\ on_results_screen /\ has_results
    /\ search_results_state.filter_mode = "Editing"
    /\ filter_text = <<>>
    /\ selected > 0

\* C12: Esc on the results screen while the filter is Applied makes the mode
\* Inactive, the filter text empty with the cursor at 0 and the selection 0,
\* and changes nothing else: the screen stays the results screen
C12_EscClearsAppliedFilter ==
    (on_results_screen /\ search_results_state.filter_mode = "Applied")
    => /\ after_esc.app =
             [App EXCEPT !.search_results_state =
                             [selected_item_idx |-> 0,
                              filter_mode |-> "Inactive",
                              filter_input_state |->
                                  [input |-> <<>>, cursor_position |-> 0]]]
       /\ after_esc.app.current_screen = "SearchResults"
       /\ after_esc.spawn = <<>>
       /\ ~after_esc.panic

\* C12 witness: a filter with text is applied and a match other than the
\* first is selected
C12_AppliedFilterWithSelection ==
    /\ on_results_screen /\ has_results
    /\ search_results_state.filter_mode = "Applied"
    /\ filter_text # <<>>
    /\ selected > 0

\* the fields of the results list after `key`
results_state_after(key) == handle_key(App, key).app.search_results_state

\* the keys that only move the cursor of a text input
CursorKeys == {Key(code) : code \in {"Left", "Right", "Home", "End"}}

\* C13: while the filter is in Editing, a key that changes the filter text
\* sets the selected index to 0 and a key that leaves the text as it was
\* leaves the selected index as it was; cursor movement and Backspace at
\* position 0 leave the text as it was
C13_EditingResetsSelection ==
    (on_results_screen /\ search_results_state.filter_mode = "Editing")
    => \A key \in BrowseKeys :
         LET changed == results_state_after(key).filter_input_state.input # filter_text
         IN /\ results_state_after(key).selected_item_idx =
                  IF changed THEN 0 ELSE selected
            /\ (\/ key \in CursorKeys
                \/ /\ key = Key("Backspace")
                   /\ search_results_state.filter_input_state.cursor_position = 0)
               => ~changed

\* Editing a filter with text, the cursor behind it, a later match selected
C13_EditingWithSelection ==
    /\ on_results_screen
    /\ has_results
    /\ search_results_state.filter_mode = "Editing"
    /\ search_results_state.filter_input_state.cursor_position > 0
    /\ selected > 0

\* the line counts of the matches the list shows
listed_heights == text_match_heights(search_state.results, search_results_state)

\* the rows of the selected match: calculated_offset_start, calculated_offset_end
offset_start == offset_of(listed_heights, selected)
offset_end == offset_of(listed_heights, selected + 1)

\* the rows [first, last) lie within the window of the viewport at `scroll`
within_window(first, last, scroll) ==
    scroll <= first /\ last <= scroll + viewport_height

\* C14 (as stated): after every render of the results list the rows
\* [offset_start, offset_end) of the selected fragment lie within
\* [vertical_scroll, vertical_scroll + viewport_height)
C14_SelectionWithinWindow ==
    shows_results
    => \A overflow_checks \in BOOLEAN :
         within_window(offset_start, offset_end, drawn(overflow_checks).vertical_scroll)

\* C14 (amended): after every render of the results list, the rows of the
\* selected fragment lie within the window when they are no more than
\* viewport_height
C14_FittingSelectionWithinWindow ==
    (shows_results /\ offset_end - offset_start <= viewport_height)
    => \A overflow_checks \in BOOLEAN :
         within_window(offset_start, offset_end, drawn(overflow_checks).vertical_scroll)

\* a render that scrolls up to a selection that fits the viewport
C14_ScrolledUpToSelection ==
    /\ shows_results
    /\ offset_end - offset_start <= viewport_height
    /\ offset_end > offset_start
    /\ offset_start < vertical_scroll
    /\ drawn(TRUE).vertical_scroll = offset_start

\* C15: render changes vertical_scroll only to bring the selection into
\* view: it increases the scroll only if the selection's bottom is below the
\* bottom edge of the window, decreases it only if the selection's top is
\* above the top edge, and leaves it when the selection lies within the window
C15_ScrollOnlyToSelection ==
    shows_results
    => \A overflow_checks \in BOOLEAN :
         LET scrolled == drawn(overflow_checks).vertical_scroll
         IN /\ scrolled > vertical_scroll
               => offset_end > vertical_scroll + viewport_height
            /\ scrolled < vertical_scroll => offset_start < vertical_scroll
            /\ within_window(offset_start, offset_end, vertical_scroll)
               => scrolled = vertical_scroll

\* a list scrolled down, the selection within the window and below its top
C15_SelectionBelowTopOfWindow ==
    /\ shows_results
    /\ vertical_scroll > 0
    /\ offset_start > vertical_scroll
    /\ offset_end > offset_start
    /\ within_window(offset_start, offset_end, vertical_scroll)

\* the frame when render is about to copy the canvas: the block drawn
framed == block_render(matches_area, Buffer_empty(terminal))

\* the viewport of the results list: inner_area
viewport == block_inner(matches_area)

\* C16: the final copy of render transfers a viewport_height-tall window of
\* canvas rows starting at the scroll offset: a cell of the viewport shows the
\* canvas row at the scroll plus its row when there is one, and no cell of
\* the screen outside the viewport is modified
C16_CopyStaysInViewport ==
    shows_results
    => \A overflow_checks \in BOOLEAN :
         LET frame == drawn(overflow_checks)
             total_height == offset_of(listed_heights, Len(listed_heights))
         IN \A pos \in positions(terminal) :
              IF pos \in positions(viewport)
              THEN LET y == frame.vertical_scroll + (pos[2] - viewport.y)
                   IN frame.buf.content[pos] =
                        IF y < total_height
                        THEN canvas(viewport.width, listed_heights).content[
                                 <<pos[1] - viewport.x, y>>]
                        ELSE framed.content[pos]
              ELSE frame.buf.content[pos] = framed.content[pos]

\* the positions of the source and of the target cell for the relative
\* position `rel` of a call of blit
blit_src_pos(call, rel) ==
    <<call.src.area.x + rel[1] + call.src_offset[1],
      call.src.area.y + rel[2] + call.src_offset[2]>>
blit_tgt_pos(call, rel) ==
    <<call.tgt.area.x + rel[1] + call.tgt_offset[1],
      call.tgt.area.y + rel[2] + call.tgt_offset[2]>>

\* the relative positions of the target area for which both cells exist
blit_pairs(call) ==
    {rel \in (0 .. (call.tgt.area.width - 1)) \X (0 .. (call.tgt.area.height - 1)) :
        /\ has_cell(call.src, blit_src_pos(call, rel))
        /\ has_cell(call.tgt, blit_tgt_pos(call, rel))}

\* C17: blit gives every target cell for which a relative position has both
\* its source cell and this target cell the source cell's symbol and style,
\* a blank one too, leaves every other target cell as it was, and raises no
\* error whatever the coordinates
C17_BlitCopiesExistingPairs ==
    blitter.called
    => /\ ~blitter.outcome.panic
       /\ \A pos \in positions(blitter.tgt.area) :
            LET from == {rel \in blit_pairs(blitter) : blit_tgt_pos(blitter, rel) = pos}
            IN IF from = {}
               THEN blitter.outcome.buf.content[pos] = blitter.tgt.content[pos]
               ELSE \E rel \in from :
                      blitter.outcome.buf.content[pos] =
                          blitter.src.content[blit_src_pos(blitter, rel)]

\* the segments fill_out_range_list returned
items == filler.items

\* C18: for every context [a, b) and every ascending list of candidates that
\* do not overlap, the segments returned are contiguous and cover [a, b):
\* the first starts at a, the last ends at b, and there is none when a = b
C18_SegmentsCoverContext ==
    filler.called
    => /\ \A i \in 1..(Len(items) - 1) : items[i].range.end = items[i + 1].range.start
       /\ IF filler.context.start = filler.context.end
          THEN items = <<>>
          ELSE /\ items # <<>>
               /\ items[1].range.start = filler.context.start
               /\ items[Len(items)].range.end = filler.context.end

\* a call with a candidate that starts before the context and one that ends
\* behind it
C18_CandidatesAcrossBothEnds ==
    /\ filler.called
    /\ Len(filler.segments) = 2
    /\ filler.segments[1].start < filler.context.start
    /\ filler.segments[1].end > filler.context.start
    /\ filler.segments[2].start < filler.context.end
    /\ filler.segments[2].end > filler.context.end
    /\ Len(items) = 3

\* the part of a candidate that lies in the context
intersection(range, context) ==
    Range(larger(range.start, context.start), min(range.end, context.end))

is_nonempty(range) == range.start < range.end

is_matched(segment) == segment.is_match

\* a candidate that ends at or before the start of the context, or starts at
\* or behind its end
fully_outside(range, context) ==
    range.end <= context.start \/ range.start >= context.end

\* C19: for sorted candidates that do not overlap, a position of [a, b) lies
\* in a matched segment if and only if it lies in a candidate, the matched
\* segments are the candidates' non-empty intersections with the context, and
\* candidates fully outside the context leave one unmatched segment [a, b)
C19_MatchedIffInCandidate ==
    filler.called
    => /\ \A p \in filler.context.start .. (filler.context.end - 1) :
            (\E i \in 1..Len(items) :
                is_matched(items[i]) /\ Range_contains(items[i].range, p))
            <=> (\E j \in 1..Len(filler.segments) :
                    Range_contains(filler.segments[j], p))
       /\ LET parts == [j \in 1..Len(filler.segments) |->
                           intersection(filler.segments[j], filler.context)]
              matched == SelectSeq(items, is_matched)
          IN [i \in 1..Len(matched) |-> matched[i].range] =
                 SelectSeq(parts, is_nonempty)
       /\ (/\ is_nonempty(filler.context)
           /\ \A j \in 1..Len(filler.segments) :
                fully_outside(filler.segments[j], filler.context))
          => items = <<RangeSegment(filler.context, FALSE)>>

\* a call with a candidate that runs over the end of the context and one
\* behind it
C19_CandidateClippedAndOutside ==
    /\ filler.called
    /\ Len(filler.segments) = 2
    /\ filler.segments[1].start > filler.context.start
    /\ filler.segments[1].start < filler.context.end
    /\ filler.segments[1].end > filler.context.end
    /\ is_nonempty(filler.segments[2])
    /\ Len(items) = 2

\* C20: for sorted candidates that do not overlap, the segments alternate
\* between matched and unmatched: no two unmatched segments are adjacent, and
\* two matched segments are adjacent only where two candidates touch
C20_SegmentsAlternate ==
    filler.called
    => \A i \in 1..(Len(items) - 1) :
         /\ is_matched(items[i]) \/ is_matched(items[i + 1])
         /\ (is_matched(items[i]) /\ is_matched(items[i + 1]))
            => \E j \in 1..(Len(filler.segments) - 1) :
                 /\ filler.segments[j].end = filler.segments[j + 1].start
                 /\ filler.segments[j].end = items[i].range.end

\* p lies within the range, its end boundary included: [start, end]
within_closed(range, p) == range.start <= p /\ p <= range.end

\* the overlap test with `within` read as the closed interval
overlapping_closed(a, b) ==
    \/ within_closed(b, a.start)
    \/ within_closed(b, a.end)
    \/ within_closed(a, b.start)
    \/ within_closed(a, b.end)

\* the pairs of ranges the call compared: the context and each candidate
compared == {<<filler.context, filler.segments[j]>> : j \in 1..Len(filler.segments)}

\* C21 (as stated): are_ranges_overlapping(a, b) is true exactly when an end
\* of one range lies within the closed interval [start, end] of the other,
\* and gives the same answer for (b, a), for all ranges, empty ones included
C21_OverlapIsClosedTest ==
    filler.called
    => \A pair \in compared :
         /\ are_ranges_overlapping(pair[1], pair[2])
            <=> overlapping_closed(pair[1], pair[2])
         /\ are_ranges_overlapping(pair[1], pair[2])
            <=> are_ranges_overlapping(pair[2], pair[1])

\* C21 (amended): for non-empty ranges are_ranges_overlapping(a, b) is true
\* exactly when an end of one range lies within the closed interval of the
\* other, so ranges that only touch overlap; for all ranges, empty ones
\* included, it gives the same answer for (a, b) and (b, a)
C21_OverlapOfNonEmptyIsClosedTest ==
    filler.called
    => \A pair \in compared :
         /\ (is_nonempty(pair[1]) /\ is_nonempty(pair[2]))
            => (are_ranges_overlapping(pair[1], pair[2])
                <=> overlapping_closed(pair[1], pair[2]))
         /\ are_ranges_overlapping(pair[1], pair[2])
            <=> are_ranges_overlapping(pair[2], pair[1])

\* a call that compared two non-empty ranges that only touch
C21_TouchingRangesCompared ==
    /\ filler.called
    /\ \E pair \in compared :
         /\ is_nonempty(pair[1])
         /\ is_nonempty(pair[2])
         /\ pair[1].end = pair[2].start
         /\ are_ranges_overlapping(pair[1], pair[2])

\* the string segmented and the items it gave
text == segmenter.s
lines == segmenter.lines

\* the byte offset behind the content of item i
content_end(i) == lines[i].start + Len(lines[i].content)

\* the terminator consumed between item i and the next: 2 bytes are "\r\n",
\* 1 byte is "\n"
terminator_after(i) ==
    IF lines[i + 1].start - content_end(i) = 2 THEN <<"\r", "\n">>
    ELSE IF lines[i + 1].start - content_end(i) = 1 THEN <<"\n">>
    ELSE <<>>

\* the contents from item i on, the terminators between them reinserted
RECURSIVE rejoined(_)
rejoined(i) ==
    IF i > Len(lines) THEN <<>>
    ELSE IF i = Len(lines) THEN lines[i].content
    ELSE lines[i].content \o terminator_after(i) \o rejoined(i + 1)

\* C22: for every string, the contents of the items in order, with the
\* consumed terminator reinserted between consecutive items, are the string;
\* the start offsets increase strictly and each content is the bytes of the
\* string from its start on
C22_LinesRoundTrip ==
    segmenter.called
    => /\ rejoined(1) = text
       /\ \A i \in 1..(Len(lines) - 1) : lines[i].start < lines[i + 1].start
       /\ \A i \in 1..Len(lines) :
            lines[i].content = SubSeq(text, lines[i].start + 1, content_end(i))

\* the string ends with "\n" or "\r\n"
ends_with_terminator(s) == s # <<>> /\ s[Len(s)] = "\n"

\* C23: a string that ends with a line terminator yields, as its last item,
\* a line of empty content whose start is the length of the string
C23_TrailingEmptyLine ==
    (segmenter.called /\ ends_with_terminator(text))
    => /\ lines # <<>>
       /\ lines[Len(lines)] = SmartLineItem(<<>>, Len(text))

\* the line that starts the string `rest`: the bytes before its first "\n",
\* less a "\r" right before that "\n"
first_line(rest) ==
    LET newline == find(rest, <<"\n">>)
    IN IF newline = None THEN rest
       ELSE IF unwrap(newline) > 0 /\ rest[unwrap(newline)] = "\r"
       THEN SubSeq(rest, 1, unwrap(newline) - 1)
       ELSE SubSeq(rest, 1, unwrap(newline))

\* C24: every item is one line: it ends at the first terminator of the text
\* that remains, "\r\n" or else "\n", so no content holds a "\n", also where
\* both terminators occur in one string; a "\r" without "\n" stays in the
\* content
C24_ItemIsOneLine ==
    segmenter.called
    => \A i \in 1..Len(lines) :
         /\ ~contains(lines[i].content, <<"\n">>)
         /\ lines[i].content =
                first_line(SubSeq(text, lines[i].start + 1, Len(text)))

\* a terminator ends at byte offset p of the string
terminator_ends_at(s, p) == p >= 1 /\ p <= Len(s) /\ s[p] = "\n"

\* a terminator starts at byte offset p of the string
terminator_starts_at(s, p) ==
    \/ p + 1 <= Len(s) /\ s[p + 1] = "\n"
    \/ p + 2 <= Len(s) /\ s[p + 1] = "\r" /\ s[p + 2] = "\n"

\* C25: consecutive line terminators yield one item of empty content per
\* empty line, whose start is the byte position right after the preceding
\* terminator
C25_EmptyLinesYieldItems ==
    segmenter.called
    => \A p \in 1..Len(text) :
         (terminator_ends_at(text, p) /\ terminator_starts_at(text, p))
         => Cardinality({i \in 1..Len(lines) :
                            lines[i] = SmartLineItem(<<>>, p)}) = 1

\* the text match rendered and the lines smart_iter_lines gives for it
rendered_match == renderer.text_match
fragment_lines == smart_iter_lines(rendered_match.fragment)

\* the spans the line has when it is filled out over the byte range of its
\* content before the substitutions and each span shows the bytes of the
\* fragment in its range
spans_at_offsets(line) ==
    LET abs_line_range == Range(line.start, line.start + Len(line.content))
        segments == fill_out_segments(abs_line_range, rendered_match.matches)
    IN [k \in 1..Len(segments) |->
           Span(substituted(SubSeq(rendered_match.fragment,
                                   segments[k].range.start + 1,
                                   segments[k].range.end)),
                segments[k].is_match)]

\* C26: every line of a fragment is filled out over its byte range in the
\* fragment, [line.start, line.start + length of the content before the
\* substitutions), so the spans styled as matches hold the characters at the
\* match's offsets, also in lines with tabs or carriage returns
C26_HighlightsAtMatchOffsets ==
    renderer.called
    => /\ Len(renderer.rendered) = Len(fragment_lines)
       /\ \A i \in 1..Len(fragment_lines) :
            renderer.rendered[i] = spans_at_offsets(fragment_lines[i])

\* C27: whenever results are displayed and the filtered match count n is
\* above 0, the selected index is below n
C27_SelectionWithinFilteredList ==
    (shows_results /\ filtered_count > 0) => selected < filtered_count

\* the queries a search may complete for: the prompt texts that are not
\* blank, and a saved search
Queries == (InputTexts \ {<<>>}) \cup {Entry(1)}

\* how often the query occurs in the list
occurrences(searches, query) ==
    Cardinality({i \in 1..Len(searches) : searches[i] = query})

\* the list holds the search
holds(searches, search) == \E i \in 1..Len(searches) : searches[i] = search

\* the index at which the list holds the search, the length plus one when it
\* does not hold it
position(searches, search) ==
    IF holds(searches, search)
    THEN CHOOSE i \in 1..Len(searches) : searches[i] = search
    ELSE Len(searches) + 1

\* the entries of `after` behind its first one are the entries of `before`
\* other than the query, as many as there is room for, in the order they had
\* (a history holds no search twice)
keeps_order(after, query, before) ==
    LET at == position(before, query)
    IN \A i \in 2..Len(after) :
          after[i] = before[IF i - 1 < at THEN i - 1 ELSE i]

\* the history holds no search twice
no_search_twice ==
    \A i, k \in 1..Len(search_history.searches) :
        search_history.searches[i] = search_history.searches[k] => i = k

\* C28: after add_search(q) the history has q at index 0, q occurs once, and
\* the other entries keep the relative order they had
C28_AddSearchPutsQueryFirst ==
    \A query \in Queries :
        LET before == search_history.searches
            after == add_search(search_history, query).searches
        IN /\ after # <<>>
           /\ after[1] = query
           /\ occurrences(after, query) = 1
           /\ keeps_order(after, query, before)

\* a search completed for a query the history held further down
C28_QueryMovedToFront ==
    /\ search_state.tag = "Loaded"
    /\ Len(search_history.searches) > 2
    /\ search_history.searches[1] = <<"j">>
    /\ occurrences(unwrap(history_file), <<"j">>) = 1
    /\ unwrap(history_file)[2] = <<"j">>

\* the indices of `before` whose entry, other than the query, is (or is not)
\* among the entries of `after`
indices_kept(before, after, query, is_kept) ==
    {i \in 1..Len(before) :
        /\ before[i] # query
        /\ holds(after, before[i]) = is_kept}

\* add_search(query) leaves at most MAX_HISTORY_SIZE entries, and the entries
\* it drops come after all the entries it keeps
add_search_drops_tail(h, query) ==
    LET before == h.searches
        after == add_search(h, query).searches
    IN /\ Len(after) <= MAX_HISTORY_SIZE
       /\ \A kept \in indices_kept(before, after, query, TRUE) :
            \A dropped \in indices_kept(before, after, query, FALSE) :
                kept < dropped

\* C29: the history never holds more than 100 entries: after every add_search
\* its length is at most 100, and a truncation drops only the oldest entries
C29_HistoryWithinCap ==
    /\ Len(search_history.searches) <= MAX_HISTORY_SIZE
    /\ \A query \in Queries : add_search_drops_tail(search_history, query)

\* every search the history holds stays in it over a step, unless the history
\* is full after the step
history_keeps_searches ==
    \A i \in 1..Len(search_history.searches) :
        \/ holds(search_history'.searches, search_history.searches[i])
        \/ Len(search_history'.searches) >= MAX_HISTORY_SIZE

\* C30: a query that a completed search added to the history stays in it
\* until the cap evicts it, whenever the startup HistoryLoaded message is
\* delivered
C30_AddedQueryStays == [][history_keeps_searches]_vars

\* the total content height: the sum over the text matches of line count + 3
total_content_height ==
    offset_of(layouter.heights, Len(layouter.heights))

\* C31: the canvas is as high as the total content height, whatever the
\* total, the slot of the selected text match lies inside the canvas, and the
\* scroll offset handed to blit is the vertical scroll
C31_CanvasHoldsAllContent ==
    layouter.called
    => /\ layouter.tbuf_area.height = total_content_height
       /\ layouter.offsets[1] <= layouter.offsets[2]
       /\ layouter.offsets[2] <= layouter.tbuf_area.height
       /\ layouter.blit_scroll = layouter.vertical_scroll

\* the oldest message reports the failure of a next-page fetch while a newly
\* submitted query is loading: the LoadingMore state that asked for the page
\* has been replaced by the submit
superseded_page_failure ==
    /\ Running
    /\ message_rx # <<>>
    /\ Head(message_rx).type = "PaginationError"
    /\ search_state.tag = "Loading"

\* C32: the failure of a fetch that belongs to a superseded request is
\* ignored and does not terminate the process (stated for the failures that
\* the state shows to be superseded: a page failure while a new query loads)
C32_SupersededFailureIgnored ==
    [][superseded_page_failure => (~panicked' /\ search_state' = search_state)]_vars

\* C33: while the search state is Idle or Loading the filter mode is
\* Inactive, and Esc on the results screen is never ignored: it changes the
\* filter mode or returns to the prompt screen
C33_EscNeverIgnored ==
    /\ search_state.tag \in {"Idle", "Loading"}
       => search_results_state.filter_mode = "Inactive"
    /\ on_results_screen
       => \/ after_esc.app.current_screen = "SearchPrompt"
          \/ after_esc.app.search_results_state.filter_mode
               # search_results_state.filter_mode

\* C33 witness: the filter is being edited on the results screen while the
\* next page is loading
C33_EditingWhileLoadingMore ==
    /\ on_results_screen
    /\ search_state.tag = "LoadingMore"
    /\ search_results_state.filter_mode = "Editing"

\* C34: whenever the filter mode is Applied, the filter text is not empty
C34_AppliedFilterHasText ==
    search_results_state.filter_mode = "Applied" => filter_text # <<>>

\* the keys that move the selection in the list of matches
NavigationKeys ==
    {CharKey("j", FALSE), Key("Down"), CharKey("k", FALSE), Key("Up")}

\* C35: while the search state is Idle, Loading or LoadingMore, a navigation
\* key on the results screen dispatches no fetch and leaves the search state
\* as it is, also when it moves the selection near the end of the list
C35_NoFetchWhileLoading ==
    (on_results_screen /\ search_state.tag \in {"Idle", "Loading", "LoadingMore"})
    => \A key \in NavigationKeys :
          LET out == handle_key(App, key)
          IN /\ out.spawn = <<>>
             /\ out.app.search_state = search_state
             /\ ~out.panic

\* C35 witness: the next page is loading, there is a page after the current
\* one, and the next-item key moves the selection near the end of the list
C35_NearEndWhileLoadingMore ==
    /\ on_results_screen
    /\ search_state.tag = "LoadingMore"
    /\ has_next_page
    /\ search_results_state.filter_mode # "Editing"
    /\ filtered_count > 0
    /\ is_near_end(select_next_item(selected, filtered_count), filtered_count)

\* the loop has ended: the user left, or a fetch error ended the process
stopped == should_exit \/ panicked

\* C36: with fetches that complete and a loop that keeps running, every
\* Loading or LoadingMore state is followed by Loaded, by Loading for a query
\* submitted after it, or by the end of the process, and every message on the
\* queue is handled
C36_LoadingEnds ==
    /\ \A n \in 0..(MaxLiveFetches + 1) :
          (search_state.tag \in {"Loading", "LoadingMore"} /\ spawned = n)
          ~> \/ search_state.tag = "Loaded"
             \/ search_state.tag = "Loading" /\ spawned > n
             \/ stopped
    /\ (message_rx # <<>>) ~> (message_rx = <<>> \/ stopped)

\* C36 witness: the next page is loading and its response has not been
\* received
C36_PageInFlight ==
    /\ search_state.tag = "LoadingMore"
    /\ \E task \in BagToSet(tasks) : task.kind = "page"
    /\ ~stopped

\* the startup load has not finished: the in-memory history is the one the
\* most recent completed search left
load_pending == \E task \in BagToSet(tasks) : task.kind = "load"

\* history.json holds the in-memory history
persisted == history_file = Some(search_history.searches)

\* C37: a save of an older snapshot never overwrites the save of a newer
\* one: once history.json holds the history of the most recent completed
\* search, it holds it until another search completes
C37_NewestSnapshotStays ==
    [][(load_pending /\ persisted)
       => (persisted' \/ search_history' # search_history)]_vars

\* the history entry that is highlighted on the prompt screen
highlighted == search_history.searches[unwrap(search_history.selected_idx) + 1]

\* C38: on the prompt screen a highlighted history entry exists and is the
\* text of the prompt input, and Enter submits it
C38_HighlightedEntryIsInput ==
    (current_screen = "SearchPrompt" /\ is_some(search_history.selected_idx))
    => /\ unwrap(search_history.selected_idx) < Len(search_history.searches)
       /\ input_state.input = highlighted
       /\ trim(highlighted) # <<>>
          => handle_key(App, Key("Enter")).spawn = <<SearchTask(trim(highlighted))>>

\* C39: after any sequence of text input keys and history recalls the cursor
\* is at most the byte length of the input and on a character boundary, and
\* no insert or remove faults
C39_CursorOnCharBoundary ==
    /\ ~panicked
    /\ input_state.cursor_position <= byte_len(input_state.input)
    /\ is_char_boundary(input_state.input, input_state.cursor_position)

\* every segment returned is non-empty and lies within the context
segments_within_context ==
    \A i \in 1..Len(items) :
        /\ items[i].range.start < items[i].range.end
        /\ filler.context.start <= items[i].range.start
        /\ items[i].range.end <= filler.context.end

\* every candidate of the call is a range start..end with start <= end
candidates_well_formed ==
    \A i \in 1..Len(filler.segments) :
        filler.segments[i].start <= filler.segments[i].end

\* C40 (as stated): for any candidate list at all, every segment returned is
\* non-empty and lies within the context
C40_SegmentsWithinContext == filler.called => segments_within_context

\* C40: for any list of candidates start..end with start <= end, in any
\* order, overlapping, empty or outside the context, every segment returned
\* is non-empty and lies within the context
C40_WellFormedSegmentsWithinContext ==
    (filler.called /\ candidates_well_formed) => segments_within_context

\* C40 witness: a call with two overlapping candidates in descending order,
\* the first running past the end of the context and the second starting
\* before it
C40_UnsortedOverlappingCandidates ==
    /\ filler.called
    /\ candidates_well_formed
    /\ Len(filler.segments) = 2
    /\ filler.segments[2].start < filler.segments[1].start
    /\ filler.segments[1].start < filler.segments[2].end
    /\ filler.segments[1].end > filler.context.end
    /\ filler.segments[2].start < filler.context.start
    /\ \E i \in 1..Len(items) : items[i].is_match

====
